---- MODULE Spec2Model ----
(***************************************************************************)
(* Model of traefik-cloudflare-gompanion: the synchronization engine       *)
(* (Companion.SyncMappings / Companion.pointDomain), the three tasks that  *)
(* feed it (the initial scan run by main, the Traefik poller and the       *)
(* Docker event watcher) and the Cloudflare record set they act on.        *)
(*                                                                         *)
(* Strings are sequences of one-character strings, so that the substring   *)
(* tests of the code (strings.Contains) are computed, not assumed.         *)
(***************************************************************************)
EXTENDS Naturals, Sequences, FiniteSets, TLC

VARIABLES
    cfg,        \* Config: the DryRun and RefreshEntries flags
    synced,     \* Companion.synced: map hostname -> priority
    syncedM,    \* Companion.syncedM: the task that holds the lock
    remote,     \* Cloudflare: <<zone, name>> -> sequence of record contents
    pc,         \* position of each task
    pending,    \* SyncMappings: the entries of its map the range loop has
                \* not visited yet
    name,       \* SyncMappings: the hostname of the current iteration
    source,     \* SyncMappings: the priority of the current iteration
    di,         \* pointDomain: index of the domain the loop is at
    records,    \* pointDomain: the result of the last ListDNSRecords
    ri,         \* pointDomain: index of the record the update loop is at
    ok,         \* pointDomain: the ok flag it returns
    calls,      \* pointDomain: the provider calls issued for the domain
                \* it reconciled last, in order
    listed,     \* pointDomain: the domains it issued ListDNSRecords for
    failed,     \* pointDomain: whether a provider call returned an error
    skipped,    \* SyncMappings: the hostname the task's last visit skipped
    owed,       \* the (hostname, priority) of the last reconciliation that
                \* failed, until a pass at that priority skips the hostname
                \* or reconciles it without a failure
    since,      \* RunDockerEventWatch: the resume cursor
    stream,     \* RunDockerEventWatch: the event subscription
    logged,     \* Logger: the error messages written, in order
    cancelled,  \* main: whether ctx is done
    input,      \* the arguments of the function under study
    output      \* its result

\* The variables of the synchronization engine other than pc.
engineVars == <<cfg, synced, syncedM, remote, pending, name, source, di, records, ri,
                ok, calls, listed, failed, skipped, owed>>

\* The variables of the task loops around it.
loopVars == <<since, stream, logged, cancelled>>

\* The variables that hold one function's arguments and result.
fnVars == <<input, output>>

vars == <<cfg, synced, syncedM, remote, pc, pending, name, source, di, records, ri, ok,
          calls, listed, failed, skipped, owed, since, stream, logged, cancelled,
          input, output>>

\* ------------------------------------------------------------------ bounds

\* Largest number of hostnames one discovery source reports in one pass.
MaxMap == 1

\* Largest priority value of a snapshot given to addToMappings.
MaxPrio == 2

\* Largest number of addToMappings calls on one map.
MaxMerges == 3

\* Largest length of a hostname given to isDomainExcluded.
MaxHostLen == 6

\* Largest timestamp of a Docker event.
MaxTime == 2

\* Largest number of error messages written to the log.
MaxLog == 3

\* ------------------------------------------------------------- strings

\* strings.Contains(s, sub)
Contains(s, sub) ==
    \E i \in 0..(Len(s) - Len(sub)) : SubSeq(s, i + 1, i + Len(sub)) = sub

\* ------------------------------------------------------- configuration

\* lb.example.net, the TARGET_DOMAIN
TargetDomain == <<"l", ".", "n">>

\* lb.app.example.com, the DOMAIN2_TARGET_DOMAIN; it lies inside both domains.
Target2 == <<"l", ".", "a", ".", "e", ".", "c">>

\* Content of a record that points somewhere else.
OtherContent == <<"o", ".", "n">>

RecordType == "CNAME"

\* cfg.Domains as loadDomainConfigs builds it: DOMAIN1 = example.com with
\* the excluded sub domain "internal", DOMAIN2 = app.example with its own
\* target, TTL, proxied flag and comment.
Domains == <<
    [Name |-> <<"e", ".", "c">>, Proxied |-> FALSE, ZoneID |-> "z1", TTL |-> 1,
     TargetDomain |-> TargetDomain, Comment |-> "",
     ExcludedSubDomains |-> << <<"i">> >>],
    [Name |-> <<"a", ".", "e">>, Proxied |-> TRUE, ZoneID |-> "z2", TTL |-> 300,
     TargetDomain |-> Target2, Comment |-> "managed",
     ExcludedSubDomains |-> << >>] >>

NDomains == Len(Domains)

Zones == {Domains[d].ZoneID : d \in 1..NDomains}

\* The hostnames the discovery sources can report:
\*   a.e.c    app.example.com, in both domains
\*   a.i.e.c  app.internal.example.com, excluded from DOMAIN1 and not in
\*            DOMAIN2
\*   l.a.e.c  the target of DOMAIN2 itself, in DOMAIN1
AppHost == <<"a", ".", "e", ".", "c">>

InternalHost == <<"a", ".", "i", ".", "e", ".", "c">>

Hosts == {AppHost, InternalHost, Target2}

Tasks == {"main", "poller", "watcher"}

Background == {"poller", "watcher"}

NoName == << >>

\* ------------------------------------------------------ pure functions

\* isDomainExcluded that looks for the excluded label alone.
isDomainExcluded_LabelOnly(n, dom) ==
    \E k \in 1..Len(dom.ExcludedSubDomains) :
        Contains(n, dom.ExcludedSubDomains[k])

\* isDomainExcluded(name, dom)
isDomainExcluded(n, dom) ==
    \E k \in 1..Len(dom.ExcludedSubDomains) :
        Contains(n, dom.ExcludedSubDomains[k] \o <<".">> \o dom.Name)

\* DomainMatches without the self-reference guard.
DomainMatches_NoTargetGuard(n, dom) ==
    /\ Contains(n, dom.Name)
    /\ ~isDomainExcluded(n, dom)

\* The three tests at the head of pointDomain's loop body: the domain is
\* reconciled for the name iff none of them continues.
DomainMatches(n, dom) ==
    /\ n # dom.TargetDomain
    /\ Contains(n, dom.Name)
    /\ ~isDomainExcluded(n, dom)

\* NextDomain of a loop that ends after its first reconciled domain.
NextDomain_FirstOnly(n, d) ==
    IF d = 1 /\ \E e \in 1..NDomains : DomainMatches(n, Domains[e])
    THEN CHOOSE e \in 1..NDomains :
            /\ DomainMatches(n, Domains[e])
            /\ \A f \in 1..(e - 1) : ~DomainMatches(n, Domains[f])
    ELSE NDomains + 1

\* pointDomain's range loop over cfg.Domains: the index of the first domain
\* at or after d whose loop body reaches ListDNSRecords for the name, or
\* NDomains + 1 when the loop ends.
NextDomain(n, d) ==
    IF \E e \in d..NDomains : DomainMatches(n, Domains[e])
    THEN CHOOSE e \in d..NDomains :
            /\ DomainMatches(n, Domains[e])
            /\ \A f \in d..(e - 1) : ~DomainMatches(n, Domains[f])
    ELSE NDomains + 1

\* DesiredRecord with the global TARGET_DOMAIN in place of the domain's.
DesiredRecord_GlobalTarget(n, dom) ==
    [Type |-> RecordType, Name |-> n, Content |-> TargetDomain,
     TTL |-> dom.TTL, Proxied |-> dom.Proxied, Comment |-> dom.Comment]

\* DesiredRecord pointing the record at the hostname itself.
DesiredRecord_SelfContent(n, dom) ==
    [Type |-> RecordType, Name |-> n, Content |-> n,
     TTL |-> dom.TTL, Proxied |-> dom.Proxied, Comment |-> dom.Comment]

\* The DNSRecordRequest pointDomain builds for a name and a domain.
DesiredRecord(n, dom) ==
    [Type |-> RecordType, Name |-> n, Content |-> dom.TargetDomain,
     TTL |-> dom.TTL, Proxied |-> dom.Proxied, Comment |-> dom.Comment]

\* RequiresUpdate without the RefreshEntries flag.
RequiresUpdate_NoRefresh(content, dom) ==
    content # dom.TargetDomain

\* RequiresUpdate that holds for every record.
RequiresUpdate_Always(content, dom) == TRUE

\* The test that guards UpdateDNSRecord in the record loop.
RequiresUpdate(content, dom) ==
    content # dom.TargetDomain \/ cfg.RefreshEntries

\* SendsChanges without the DryRun test.
SendsChanges_Always == TRUE

\* Whether pointDomain sends its create and update calls: with DryRun it
\* logs them instead.
SendsChanges == ~cfg.DryRun

\* OkAfter without the assignment ok = false.
OkAfter_IgnoreErr(okv, err) == okv

\* pointDomain's ok flag after a provider call: an error sets it to false.
OkAfter(okv, err) == okv /\ ~err

\* Recorded without the test of pointDomain's result.
Recorded_Always(n, prio, okv) ==
    [h \in DOMAIN synced \cup {n} |-> IF h = n THEN prio ELSE synced[h]]

\* Recorded that writes nothing under dry-run.
Recorded_UnlessDryRun(n, prio, okv) ==
    IF okv /\ ~cfg.DryRun
    THEN [h \in DOMAIN synced \cup {n} |-> IF h = n THEN prio ELSE synced[h]]
    ELSE synced

\* Recorded that keeps the entry of the last hostname only.
Recorded_Forgets(n, prio, okv) ==
    IF okv THEN [h \in {n} |-> prio] ELSE synced

\* SyncMappings after pointDomain returned okv for the hostname n at the
\* priority prio: synced[n] = prio is written only when okv is true.
Recorded(n, prio, okv) ==
    IF okv
    THEN [h \in DOMAIN synced \cup {n} |-> IF h = n THEN prio ELSE synced[h]]
    ELSE synced

\* AlreadySynced with < in place of <=.
AlreadySynced_Strict(n, prio) ==
    n \in DOMAIN synced /\ synced[n] < prio

\* AlreadySynced that skips every recorded hostname, whatever its priority.
AlreadySynced_AnyPriority(n, prio) ==
    n \in DOMAIN synced

\* The test of SyncMappings that skips a hostname.
AlreadySynced(n, prio) ==
    n \in DOMAIN synced /\ synced[n] <= prio

\* A map from the hostnames of S to the priority p.
MapOf(S, p) == [h \in S |-> p]

EmptyMap == MapOf({}, 0)

\* addToMappings in which the incoming priority always replaces the
\* current one.
addToMappings_Overwrite(current, incoming) ==
    [h \in DOMAIN current \cup DOMAIN incoming |->
        IF h \in DOMAIN incoming THEN incoming[h] ELSE current[h]]

\* addToMappings(current, incoming), returning the updated current.
addToMappings(current, incoming) ==
    [h \in DOMAIN current \cup DOMAIN incoming |->
        IF h \in DOMAIN incoming
           /\ (h \notin DOMAIN current \/ current[h] > incoming[h])
        THEN incoming[h]
        ELSE current[h]]

\* The sets of hostnames one discovery source can report in one pass.
Reports == {S \in SUBSET Hosts : Cardinality(S) <= MaxMap}

\* --------------------------------------------------------- provider log

NoReq == [Type |-> "", Name |-> NoName, Content |-> NoName, TTL |-> 0,
          Proxied |-> FALSE, Comment |-> ""]

\* One provider call: the operation, the hostname and domain it was issued
\* for, the zone and record id of its URL, its body, the contents of the
\* records a list returned, and whether it returned an error.
Call(op, n, d, rec, req, got, err) ==
    [op |-> op, name |-> n, dom |-> d, zone |-> Domains[d].ZoneID,
     rec |-> rec, req |-> req, got |-> got, err |-> err]

\* The value of syncedM when no task holds the lock.
Unlocked == "unlocked"

\* The value of owed in the executions that follow no failure.
Untracked == {<<NoName, 0>>}

\* --------------------------------------------------------------- Init

\* The record sets the provider can hold at startup: nothing, or records
\* for app.example.com in zone z1 that do or do not point to the target.
InitialRemotes ==
    { [k \in Zones \X Hosts |->
          IF k = <<"z1", AppHost>> THEN pre ELSE << >>] :
      pre \in { << >>, <<OtherContent, TargetDomain>> } }

\* The state main builds before GetInitialMappings: an empty synced map
\* and no task inside SyncMappings.
Constructed ==
    /\ synced = EmptyMap
    /\ syncedM = Unlocked
    /\ skipped = [t \in Tasks |-> {}]
    /\ pc = [t \in Tasks |-> IF t = "main" THEN "start" ELSE "off"]
    /\ pending = [t \in Tasks |-> EmptyMap]
    /\ name = [t \in Tasks |-> NoName]
    /\ source = [t \in Tasks |-> 0]
    /\ di = [t \in Tasks |-> 0]
    /\ records = [t \in Tasks |-> << >>]
    /\ ri = [t \in Tasks |-> 0]
    /\ ok = [t \in Tasks |-> TRUE]
    /\ calls = [t \in Tasks |-> << >>]
    /\ listed = [t \in Tasks |-> {}]
    /\ failed = [t \in Tasks |-> FALSE]

\* The values of the variables a specification leaves aside.
NoStream == [state |-> "none", since |-> 0, last |-> 0]

LoopsAside ==
    /\ since = 0
    /\ stream = NoStream
    /\ logged = << >>
    /\ cancelled = FALSE

FnAside ==
    /\ input = << >>
    /\ output = << >>

EngineAside ==
    /\ cfg = [DryRun |-> FALSE, RefreshEntries |-> FALSE]
    /\ remote = [k \in Zones \X Hosts |-> << >>]
    /\ owed = Untracked
    /\ Constructed

Init ==
    /\ cfg \in [DryRun : BOOLEAN, RefreshEntries : BOOLEAN]
    /\ remote \in InitialRemotes
    /\ owed = Untracked
    /\ Constructed
    /\ LoopsAside
    /\ FnAside

\* The start of the executions in which one failed reconciliation is
\* followed up: DRY_RUN and REFRESH_ENTRIES at their defaults.
InitRetry ==
    /\ cfg = [DryRun |-> FALSE, RefreshEntries |-> FALSE]
    /\ remote \in InitialRemotes
    /\ owed = {}
    /\ Constructed
    /\ LoopsAside
    /\ FnAside

\* Entering SyncMappings with the map m.
BeginPass(t, m) ==
    /\ pending' = [pending EXCEPT ![t] = m]
    /\ pc' = [pc EXCEPT ![t] = "loop"]
    /\ UNCHANGED <<loopVars, fnVars>>
    /\ UNCHANGED <<cfg, syncedM, synced, remote, name, source, di, records, ri, ok,
                   calls, listed, failed, skipped, owed>>

\* main: GetInitialMappings under runWithRecover, then SyncMappings. The
\* discovery hostnames get priority 1, the polled ones priority 2; when
\* GetInitialMappings fails the map stays empty.
GetInitialMappings ==
    /\ pc["main"] = "start"
    /\ \/ \E D \in Reports, P \in Reports :
            BeginPass("main",
                addToMappings(addToMappings(EmptyMap, MapOf(D, 1)), MapOf(P, 2)))
       \/ BeginPass("main", EmptyMap)

\* RunTraefikPoller, one tick: SyncMappings(checkTraefik()); every polled
\* hostname has priority 2.
PollerTick ==
    /\ pc["poller"] = "idle"
    /\ \E P \in Reports : BeginPass("poller", MapOf(P, 2))

\* RunDockerEventWatch, one event: SyncMappings(processDockerEvent(ev));
\* every discovered hostname has priority 1.
WatcherEvent ==
    /\ pc["watcher"] = "idle"
    /\ \E D \in Reports : BeginPass("watcher", MapOf(D, 1))

\* A map without the entry of h.
Without(m, h) == [k \in DOMAIN m \ {h} |-> m[k]]

\* SyncMappings, the head of one iteration of the range loop, for the
\* entry (h, pending[t][h]): under the lock read synced[h]; skip h when it
\* is recorded at a priority <= the incoming one, otherwise call
\* pointDomain(h), which sets ok := true and enters its domain loop.
SyncNext(t) ==
    /\ pc[t] = "loop"
    /\ \E h \in DOMAIN pending[t] :
         /\ pending' = [pending EXCEPT ![t] = Without(@, h)]
         /\ IF AlreadySynced(h, pending[t][h])
            THEN /\ skipped' = [skipped EXCEPT ![t] = {h}]
                 /\ owed' = owed \ {<<h, pending[t][h]>>}
                 /\ UNCHANGED <<pc, name, source, di, ok>>
            ELSE /\ pc' = [pc EXCEPT ![t] = "point"]
                 /\ name' = [name EXCEPT ![t] = h]
                 /\ source' = [source EXCEPT ![t] = pending[t][h]]
                 /\ di' = [di EXCEPT ![t] = NextDomain(h, 1)]
                 /\ ok' = [ok EXCEPT ![t] = TRUE]
                 /\ skipped' = [skipped EXCEPT ![t] = {}]
                 /\ UNCHANGED owed
    /\ UNCHANGED <<loopVars, fnVars>>
    /\ UNCHANGED <<cfg, syncedM, synced, remote, records, ri, calls, listed, failed>>

\* The provider call c of task t returns: the ok flag follows its error.
Returned(t, c) ==
    /\ ok' = [ok EXCEPT ![t] = OkAfter(@, c.err)]
    /\ failed' = [failed EXCEPT ![t] = @ \/ c.err]

\* The record loop of pointDomain from the record at r on: the first record
\* that gets an update call, the others being passed over or, under
\* dry-run, only logged; Len(recs) + 1 when there is none.
NextUpdate(recs, dom, r) ==
    LET S == {i \in r..Len(recs) : RequiresUpdate(recs[i], dom) /\ SendsChanges}
    IN  IF S = {} THEN Len(recs) + 1
        ELSE CHOOSE i \in S : \A j \in S : i <= j

\* pointDomain: ListDNSRecords for the domain at di. An error sets ok to
\* false and continues with the next domain. With no record, dry-run logs
\* and continues, otherwise the create follows. With records, the record
\* loop follows, up to its first update call.
ListDNSRecords(t) ==
    /\ pc[t] = "point"
    /\ di[t] <= NDomains
    /\ LET dom == Domains[di[t]]
           got == remote[<<dom.ZoneID, name[t]>>]
       IN  \E err \in BOOLEAN :
           LET c == Call("list", name[t], di[t], 0, NoReq,
                         IF err THEN << >> ELSE got, err)
           IN  /\ calls' = [calls EXCEPT ![t] = <<c>>]
               /\ listed' = [listed EXCEPT ![t] = @ \cup {di[t]}]
               /\ Returned(t, c)
               /\ IF \/ err
                     \/ Len(got) = 0 /\ ~SendsChanges
                     \/ Len(got) > 0 /\ NextUpdate(got, dom, 1) > Len(got)
                  THEN /\ di' = [di EXCEPT ![t] = NextDomain(name[t], @ + 1)]
                       /\ UNCHANGED <<pc, records, ri>>
                  ELSE IF Len(got) = 0
                  THEN /\ pc' = [pc EXCEPT ![t] = "create"]
                       /\ UNCHANGED <<di, records, ri>>
                  ELSE /\ pc' = [pc EXCEPT ![t] = "update"]
                       /\ records' = [records EXCEPT ![t] = got]
                       /\ ri' = [ri EXCEPT ![t] = NextUpdate(got, dom, 1)]
                       /\ di' = di
    /\ UNCHANGED <<loopVars, fnVars>>
    /\ UNCHANGED <<cfg, syncedM, synced, remote, pending, name, source, skipped, owed>>

\* pointDomain: CreateDNSRecord for the domain at di, then the next domain.
CreateDNSRecord(t) ==
    /\ pc[t] = "create"
    /\ LET dom == Domains[di[t]]
           key == <<dom.ZoneID, name[t]>>
       IN  \E err \in BOOLEAN :
           LET c == Call("create", name[t], di[t], 0,
                         DesiredRecord(name[t], dom), << >>, err)
           IN  /\ calls' = [calls EXCEPT ![t] = Append(@, c)]
               /\ Returned(t, c)
               /\ remote' = IF err THEN remote
                            ELSE [remote EXCEPT ![key] = Append(@, c.req.Content)]
    /\ pc' = [pc EXCEPT ![t] = "point"]
    /\ di' = [di EXCEPT ![t] = NextDomain(name[t], @ + 1)]
    /\ UNCHANGED <<loopVars, fnVars>>
    /\ UNCHANGED <<cfg, syncedM, synced, pending, name, source, records, ri, listed,
                   skipped, owed>>

\* pointDomain, the record loop: UpdateDNSRecord for the record at ri, whose
\* content differs from the target or which RefreshEntries marks; then the
\* loop goes on to its next update call, or after the last record to the
\* next domain.
UpdateDNSRecord(t) ==
    /\ pc[t] = "update"
    /\ LET dom == Domains[di[t]]
           key == <<dom.ZoneID, name[t]>>
           nxt == NextUpdate(records[t], dom, ri[t] + 1)
       IN  /\ \E err \in BOOLEAN :
                LET c == Call("update", name[t], di[t], ri[t],
                              DesiredRecord(name[t], dom), << >>, err)
                IN  /\ calls' = [calls EXCEPT ![t] = Append(@, c)]
                    /\ Returned(t, c)
                    /\ remote' = IF err THEN remote
                                 ELSE [remote EXCEPT ![key][ri[t]] = c.req.Content]
           /\ IF nxt <= Len(records[t])
              THEN /\ ri' = [ri EXCEPT ![t] = nxt]
                   /\ UNCHANGED <<pc, di, records>>
              ELSE /\ ri' = [ri EXCEPT ![t] = 0]
                   /\ records' = [records EXCEPT ![t] = << >>]
                   /\ di' = [di EXCEPT ![t] = NextDomain(name[t], @ + 1)]
                   /\ pc' = [pc EXCEPT ![t] = "point"]
    /\ UNCHANGED <<loopVars, fnVars>>
    /\ UNCHANGED <<cfg, syncedM, synced, pending, name, source, listed, skipped, owed>>

\* pointDomain returns ok; SyncMappings records the hostname under the lock
\* when it is true, and goes on with the next hostname.
PointDone(t) ==
    /\ pc[t] = "point"
    /\ di[t] > NDomains
    /\ synced' = Recorded(name[t], source[t], ok[t])
    /\ pc' = [pc EXCEPT ![t] = "loop"]
    /\ name' = [name EXCEPT ![t] = NoName]
    /\ source' = [source EXCEPT ![t] = 0]
    /\ di' = [di EXCEPT ![t] = 0]
    /\ ok' = [ok EXCEPT ![t] = TRUE]
    /\ calls' = [calls EXCEPT ![t] = << >>]
    /\ listed' = [listed EXCEPT ![t] = {}]
    /\ failed' = [failed EXCEPT ![t] = FALSE]
    /\ owed' = IF owed = Untracked THEN owed
               ELSE IF failed[t] THEN {<<name[t], source[t]>>}
               ELSE owed \ {<<name[t], source[t]>>}
    /\ UNCHANGED <<loopVars, fnVars>>
    /\ UNCHANGED <<cfg, syncedM, remote, pending, records, ri, skipped>>

\* main that starts the goroutines without waiting for its SyncMappings to
\* return.
StartBackground_Early ==
    /\ pc["main"] = "loop"
    /\ pc' = [t \in Tasks |-> IF t = "main" THEN "wait" ELSE "idle"]
    /\ skipped' = [skipped EXCEPT !["main"] = {}]
    /\ UNCHANGED <<loopVars, fnVars>>
    /\ UNCHANGED <<cfg, syncedM, synced, remote, pending, name, source, di, records, ri,
                   ok, calls, listed, failed, owed>>

\* main: the initial SyncMappings has returned; the two background tasks
\* are started and main waits for them.
StartBackground ==
    /\ pc["main"] = "loop"
    /\ pending["main"] = EmptyMap
    /\ pc' = [t \in Tasks |-> IF t = "main" THEN "wait" ELSE "idle"]
    /\ skipped' = [skipped EXCEPT !["main"] = {}]
    /\ UNCHANGED <<loopVars, fnVars>>
    /\ UNCHANGED <<cfg, syncedM, synced, remote, pending, name, source, di, records, ri,
                   ok, calls, listed, failed, owed>>

\* A background task's SyncMappings returns to its loop.
EndPass(t) ==
    /\ t \in Background
    /\ pc[t] = "loop"
    /\ pending[t] = EmptyMap
    /\ pc' = [pc EXCEPT ![t] = "idle"]
    /\ skipped' = [skipped EXCEPT ![t] = {}]
    /\ UNCHANGED <<loopVars, fnVars>>
    /\ UNCHANGED <<cfg, syncedM, synced, remote, pending, name, source, di, records, ri,
                   ok, calls, listed, failed, owed>>

Next ==
    \/ GetInitialMappings
    \/ StartBackground
    \/ PollerTick
    \/ WatcherEvent
    \/ \E t \in Tasks :
          \/ SyncNext(t)
          \/ ListDNSRecords(t)
          \/ CreateDNSRecord(t)
          \/ UpdateDNSRecord(t)
          \/ PointDone(t)
          \/ EndPass(t)

Spec == Init /\ [][Next]_vars

SpecRetry == InitRetry /\ [][Next]_vars

\* ------------------------------------------------------------ properties

\* Task t visits the hostname h in this step: the range loop of
\* SyncMappings takes its entry.
Visits(t, h) ==
    /\ pc[t] = "loop"
    /\ h \in DOMAIN pending[t]
    /\ h \notin DOMAIN pending'[t]

\* Task t is inside pointDomain.
Reconciling(t) == pc[t] \in {"point", "create", "update"}

\* pointDomain of task t returns in this step.
Returns(t) ==
    /\ pc[t] = "point"
    /\ di[t] > NDomains
    /\ pc'[t] = "loop"

\* The calls of task t with the operation op.
CallsOf(t, op) == {i \in 1..Len(calls[t]) : calls[t][i].op = op}

\* C1: a pass that visits a hostname already recorded at a priority <= the
\* incoming one issues no list, create or update call for it and leaves
\* SyncedState and the provider's records unchanged: the visit is a skip
\* and the task stays in its loop over the mapping.
C1_SkipIsNoOp ==
    [][\A t \in Tasks : \A h \in Hosts :
         (/\ Visits(t, h)
          /\ h \in DOMAIN synced
          /\ synced[h] <= pending[t][h])
         => (/\ pc'[t] = "loop"
             /\ skipped'[t] = {h}
             /\ UNCHANGED <<synced, remote, calls, listed, name>>)]_vars

\* C1 witness: a background pass has skipped a hostname recorded at its
\* own priority.
C1_Witness ==
    \E t \in Background : \E h \in skipped[t] :
        /\ h \in DOMAIN synced
        /\ synced[h] = (IF t = "poller" THEN 2 ELSE 1)
        /\ pc[t] = "loop"

\* C2: the priority recorded for a hostname never increases, and a
\* recorded hostname stays recorded.
C2_PriorityNeverIncreases ==
    [][\A h \in DOMAIN synced :
          h \in DOMAIN synced' /\ synced'[h] <= synced[h]]_vars

\* C3: when two passes reconcile the same hostname at the same time, they
\* do not both issue a create call for it in the same zone. Stated for
\* the passes none of whose calls failed, where a second create call is
\* a second record.
C3_OneCreatePerRace ==
    \A t, u \in Tasks :
        (/\ t # u
         /\ Reconciling(t) /\ Reconciling(u)
         /\ name[t] = name[u]
         /\ ~failed[t] /\ ~failed[u])
        => ~ \E i \in CallsOf(t, "create"), j \in CallsOf(u, "create") :
                 calls[t][i].zone = calls[u][j].zone

\* C4 as stated: SyncedState changes only when a pointDomain call returns
\* that reconciled at least one domain and saw no provider call fail.
C4_RecordedOnlyIfReconciled ==
    [][synced' # synced
       => \E t \in Tasks :
             /\ Returns(t)
             /\ listed[t] # {}
             /\ ~failed[t]]_vars

\* C4 as amended: SyncedState changes only when a pointDomain call returns
\* that saw no provider call fail, and then only in the entry of its
\* hostname, which becomes the incoming priority; the hostname need not
\* have been reconciled for any domain.
C4_RecordedOnlyIfNoFailure ==
    [][synced' # synced
       => \E t \in Tasks :
             /\ Returns(t)
             /\ ~failed[t]
             /\ DOMAIN synced' = DOMAIN synced \cup {name[t]}
             /\ synced'[name[t]] = source[t]
             /\ \A h \in DOMAIN synced \ {name[t]} : synced'[h] = synced[h]]_vars

\* C4 witness: recorded are a hostname of two domains and a hostname of
\* no domain, and a pass is returning from a reconciliation that failed.
C4_Witness ==
    /\ AppHost \in DOMAIN synced
    /\ InternalHost \in DOMAIN synced
    /\ \E t \in Tasks : pc[t] = "point" /\ di[t] > NDomains /\ failed[t]

\* A pointDomain call of task t that saw a provider call fail returns
\* without a change of SyncedState.
FailureLeavesSynced ==
    \A t \in Tasks : (Returns(t) /\ failed[t]) => synced' = synced

\* Task t enters pointDomain for h in this step and has a domain to list.
Reattempts(t, h) ==
    /\ pc'[t] = "point"
    /\ name'[t] = h
    /\ di'[t] <= NDomains

\* C5 as stated: a reconciliation with a failed call leaves SyncedState
\* unchanged, and the next pass that visits the hostname at the same
\* priority reconciles it again.
C5_FailedIsRetried ==
    /\ [][FailureLeavesSynced]_vars
    /\ [][\A t \in Tasks : \A h \in Hosts :
            (Visits(t, h) /\ <<h, pending[t][h]>> \in owed)
            => Reattempts(t, h)]_vars

\* C5 as amended: the next pass at the same priority reconciles the
\* hostname again unless SyncedState has come to hold it, by another
\* pass, at that priority or a more authoritative one.
C5_FailedIsRetriedUnlessSynced ==
    /\ [][FailureLeavesSynced]_vars
    /\ [][\A t \in Tasks : \A h \in Hosts :
            (/\ Visits(t, h)
             /\ <<h, pending[t][h]>> \in owed
             /\ ~(h \in DOMAIN synced /\ synced[h] <= pending[t][h]))
            => Reattempts(t, h)]_vars

\* C5 witness: a pass has listed again for a hostname whose reconciliation
\* at the same priority failed before.
C5_Witness ==
    \E t \in Tasks :
        /\ Reconciling(t)
        /\ <<name[t], source[t]>> \in owed
        /\ CallsOf(t, "list") # {}

\* C6: with dry-run off, a list that returns no record is followed by
\* exactly one create call for the same hostname and zone and by no
\* update call; the created record has the configured type, the hostname
\* as name and the domain's target, TTL, proxied flag and comment.
C6_CreateWhenNoRecord ==
    \A t \in Tasks :
        (/\ ~cfg.DryRun
         /\ calls[t] # << >>
         /\ ~calls[t][1].err
         /\ calls[t][1].got = << >>)
        => LET first == calls[t][1]
               dom == Domains[first.dom]
           IN  /\ first.op = "list"
               /\ CallsOf(t, "update") = {}
               /\ IF pc[t] = "create"
                  THEN Len(calls[t]) = 1
                  ELSE /\ Len(calls[t]) = 2
                       /\ calls[t][2].op = "create"
                       /\ calls[t][2].zone = dom.ZoneID
                       /\ calls[t][2].req =
                            [Type |-> RecordType, Name |-> first.name,
                             Content |-> dom.TargetDomain, TTL |-> dom.TTL,
                             Proxied |-> dom.Proxied, Comment |-> dom.Comment]

\* C6 witness: app.example.com has been created in the zone of DOMAIN2.
C6_Witness ==
    \E t \in Tasks :
        /\ Len(calls[t]) = 2
        /\ calls[t][2].op = "create"
        /\ ~calls[t][2].err
        /\ calls[t][2].dom = 2
        /\ remote[<<"z2", AppHost>>] = <<Target2>>

\* The number of update calls task t issued for the record r.
UpdatesOf(t, r) ==
    Cardinality({i \in CallsOf(t, "update") : calls[t][i].rec = r})

\* The records of the last list of task t that the record loop has passed.
Passed(t) ==
    IF pc[t] = "update" THEN ri[t] - 1 ELSE Len(calls[t][1].got)

\* C7 as stated: when the list returned records, each record the loop has
\* passed got one update call if its content differs from the target or
\* refresh is set, and none otherwise; no create call is issued.
C7_UpdateIffQualifies ==
    \A t \in Tasks :
        (calls[t] # << >> /\ calls[t][1].got # << >>)
        => LET got == calls[t][1].got
               target == Domains[calls[t][1].dom].TargetDomain
           IN  /\ CallsOf(t, "create") = {}
               /\ \A r \in 1..Len(got) :
                     UpdatesOf(t, r) =
                        IF r <= Passed(t)
                           /\ (got[r] # target \/ cfg.RefreshEntries)
                        THEN 1 ELSE 0

\* C7 as amended: the same with dry-run off; with dry-run on no record
\* gets an update call.
C7_UpdateIffQualifiesUnlessDryRun ==
    \A t \in Tasks :
        (calls[t] # << >> /\ calls[t][1].got # << >>)
        => LET got == calls[t][1].got
               target == Domains[calls[t][1].dom].TargetDomain
           IN  /\ CallsOf(t, "create") = {}
               /\ \A r \in 1..Len(got) :
                     UpdatesOf(t, r) =
                        IF r <= Passed(t)
                           /\ ~cfg.DryRun
                           /\ (got[r] # target \/ cfg.RefreshEntries)
                        THEN 1 ELSE 0

\* C7 witness: of two listed records the one pointing elsewhere was
\* updated and the one pointing to the target was not.
C7_Witness ==
    \E t \in Tasks :
        /\ calls[t] # << >>
        /\ calls[t][1].got = <<OtherContent, TargetDomain>>
        /\ pc[t] = "point"
        /\ UpdatesOf(t, 1) = 1
        /\ UpdatesOf(t, 2) = 0

\* C8: with dry-run no step issues a create or an update call, and no
\* step changes the provider's records.
C8_DryRunNeverChanges ==
    [][cfg.DryRun
       => /\ remote' = remote
          /\ \A t \in Tasks : \A i \in 1..Len(calls'[t]) :
                calls'[t][i].op = "list"]_vars

\* C8 witness: under dry-run a pass has gone through a list without
\* records and through a record that points elsewhere.
C8_Witness ==
    /\ cfg.DryRun
    /\ \E t, u \in Tasks :
          /\ pc[t] = "point" /\ Len(calls[t]) = 1
          /\ ~calls[t][1].err /\ calls[t][1].got = << >>
          /\ pc[u] = "point" /\ Len(calls[u]) = 1
          /\ calls[u][1].got = <<OtherContent, TargetDomain>>

\* C9: every call is a list, a create or an update, issued for the
\* hostname the task took from its mapping, in the zone of the domain it
\* reconciles; a create or update carries that hostname and the target of
\* that domain.
C9_OnlyUpsertsToTarget ==
    \A t \in Tasks : \A i \in 1..Len(calls[t]) :
        LET c == calls[t][i]
        IN  /\ c.op \in {"list", "create", "update"}
            /\ Reconciling(t)
            /\ c.name = name[t]
            /\ c.zone = Domains[c.dom].ZoneID
            /\ c.op # "list"
               => /\ c.req.Name = name[t]
                  /\ c.req.Content = Domains[c.dom].TargetDomain

\* C9 witness: a record of app.example.com was updated to the target of
\* DOMAIN1 and the hostname is being created in the zone of DOMAIN2.
C9_Witness ==
    \E t \in Tasks :
        /\ name[t] = AppHost
        /\ pc[t] = "create"
        /\ di[t] = 2
        /\ remote[<<"z1", AppHost>>] = <<TargetDomain, TargetDomain>>

\* The three conditions under which pointDomain reconciles the domain d
\* for the hostname n.
Eligible(n, d) ==
    LET dom == Domains[d]
    IN  /\ Contains(n, dom.Name)
        /\ n # dom.TargetDomain
        /\ \A k \in 1..Len(dom.ExcludedSubDomains) :
              ~Contains(n, dom.ExcludedSubDomains[k] \o <<".">> \o dom.Name)

\* C10: every call of a pointDomain call is for a domain whose name is a
\* substring of the hostname, whose target is not the hostname and none of
\* whose excluded sub domains matches; and every such domain the loop has
\* passed was listed.
C10_CallsExactlyForEligible ==
    \A t \in Tasks :
        Reconciling(t)
        => /\ \A i \in 1..Len(calls[t]) :
                Eligible(calls[t][i].name, calls[t][i].dom)
           /\ \A d \in listed[t] : Eligible(name[t], d)
           /\ \A d \in 1..NDomains :
                (Eligible(name[t], d) /\ d < di[t]) => d \in listed[t]

\* C10 witness: pointDomain returns for the target of DOMAIN2 having
\* listed DOMAIN1 alone, while another returns for app.example.com having
\* listed both domains.
C10_Witness ==
    \E t, u \in Tasks :
        /\ pc[t] = "point" /\ di[t] > NDomains
        /\ name[t] = Target2 /\ listed[t] = {1}
        /\ pc[u] = "point" /\ di[u] > NDomains
        /\ name[u] = AppHost /\ listed[u] = {1, 2}

\* C11: a failed call does not stop the pass. Inside a pointDomain call
\* that saw a failure every eligible domain the loop has passed was listed
\* and every record the record loop has passed that needed an update got
\* its update call; when such a call returns the task stays in its loop
\* with the hostnames still to visit, and a pass ends only when none is
\* left.
C11_FailureDoesNotStop ==
    /\ [](\A t \in Tasks :
            (Reconciling(t) /\ failed[t])
            => /\ \A d \in 1..NDomains :
                    (Eligible(name[t], d) /\ d < di[t]) => d \in listed[t]
               /\ (calls[t] # << >> /\ ~cfg.DryRun)
                  => \A r \in 1..Len(calls[t][1].got) :
                        (/\ r <= Passed(t)
                         /\ \/ calls[t][1].got[r] #
                                  Domains[calls[t][1].dom].TargetDomain
                            \/ cfg.RefreshEntries)
                        => UpdatesOf(t, r) = 1)
    /\ [][\A t \in Tasks :
            /\ (Returns(t) /\ failed[t])
               => (pc'[t] = "loop" /\ pending'[t] = pending[t])
            /\ (pc[t] = "loop" /\ pc'[t] \in {"idle", "wait"})
               => pending[t] = EmptyMap]_vars

\* C11 witness: a pointDomain call for app.example.com returns, with
\* another hostname still to visit, after a failure in DOMAIN1 and a
\* reconciliation of DOMAIN2 without one.
C11_Witness ==
    \E t \in Tasks :
        /\ pc[t] = "point" /\ di[t] > NDomains
        /\ name[t] = AppHost
        /\ failed[t]
        /\ pending[t] # EmptyMap
        /\ calls[t] # << >>
        /\ calls[t][1].dom = 2
        /\ \A i \in 1..Len(calls[t]) : ~calls[t][i].err

\* C12: a visit of a hostname that is not recorded, or is recorded at a
\* priority numerically above the incoming one, enters pointDomain for it
\* at the incoming priority with no domain listed yet; and a pointDomain
\* call that returns without a failure has listed every eligible domain
\* and leaves the hostname recorded at the incoming priority.
C12_ResyncWhenMoreAuthoritative ==
    [][\A t \in Tasks :
         /\ \A h \in Hosts :
              (/\ Visits(t, h)
               /\ h \in DOMAIN synced => synced[h] > pending[t][h])
              => (/\ pc'[t] = "point"
                  /\ name'[t] = h
                  /\ source'[t] = pending[t][h]
                  /\ listed'[t] = {}
                  /\ calls'[t] = << >>)
         /\ (Returns(t) /\ ~failed[t])
            => (/\ listed[t] = {d \in 1..NDomains : Eligible(name[t], d)}
                /\ name[t] \in DOMAIN synced'
                /\ synced'[name[t]] = source[t])]_vars

\* C12 witness: the watcher's pointDomain call for app.example.com, which
\* is recorded at priority 2, returns without a failure having listed
\* both domains.
C12_Witness ==
    /\ pc["watcher"] = "point" /\ di["watcher"] > NDomains
    /\ name["watcher"] = AppHost
    /\ source["watcher"] = 1
    /\ ~failed["watcher"]
    /\ listed["watcher"] = {1, 2}
    /\ AppHost \in DOMAIN synced
    /\ synced[AppHost] = 2

\* The provider holds, in the zone of every domain eligible for h, at least
\* one record of h and only records that point to the domain's target:
\* what a reconciliation of h without a failure leaves behind.
Settled(h) ==
    \A d \in 1..NDomains :
        Eligible(h, d)
        => LET recs == remote[<<Domains[d].ZoneID, h>>]
           IN  /\ recs # << >>
               /\ \A i \in 1..Len(recs) : recs[i] = Domains[d].TargetDomain

\* Task t issues a create or update call in this step.
Changes(t) ==
    \E i \in 1..Len(calls'[t]) :
        /\ calls'[t][i].op # "list"
        /\ i > Len(calls[t]) \/ calls[t][i] # calls'[t][i]

\* C13: without dry-run a pointDomain call that returns without a failure
\* leaves the provider settled for its hostname, and settled it stays.
\* With force-refresh off, a task that is between two domains of a
\* settled hostname goes on to the next domain or returns: it reaches
\* neither the create call nor the record loop's update call, the only
\* places that issue one.
C13_Idempotent ==
    /\ [](\A t \in Tasks :
            (pc[t] = "point" /\ di[t] > NDomains /\ ~failed[t] /\ ~cfg.DryRun)
            => Settled(name[t]))
    /\ [][remote' # remote
          => \A h \in Hosts : Settled(h) => Settled(h)']_vars
    /\ [][\A t \in Tasks :
            /\ Changes(t) => pc[t] \in {"create", "update"}
            /\ (/\ pc[t] = "point"
                /\ Settled(name[t])
                /\ ~cfg.RefreshEntries)
               => pc'[t] \in {"point", "loop"}]_vars

\* C13 witness: the watcher reconciles app.example.com, recorded at
\* priority 2 and settled, again: its list for DOMAIN1 returned records
\* that all point to the target, and it has moved on to DOMAIN2.
C13_Witness ==
    /\ ~cfg.DryRun /\ ~cfg.RefreshEntries
    /\ AppHost \in DOMAIN synced /\ synced[AppHost] = 2
    /\ Settled(AppHost)
    /\ pc["watcher"] = "point" /\ di["watcher"] = 2
    /\ name["watcher"] = AppHost
    /\ Len(calls["watcher"]) = 1
    /\ calls["watcher"][1].got # << >>
    /\ ~calls["watcher"][1].err

\* C17: the initial scan and its SyncMappings happen once and are over
\* before any background task exists. While main scans or reconciles, the
\* poller and the watcher are off and have made no provider call; once
\* one of them runs main waits, its mapping empty and no call of its own
\* open; main never scans again, never leaves its wait, and only main at
\* the end of its pass starts the background tasks.
C17_InitialSyncFirst ==
    /\ [](/\ \A t \in Background :
              (pc[t] = "off") => (/\ calls[t] = << >>
                                  /\ name[t] = NoName
                                  /\ pending[t] = EmptyMap)
          /\ (\E t \in Background : pc[t] # "off")
              => (/\ pc["main"] = "wait"
                  /\ pending["main"] = EmptyMap
                  /\ name["main"] = NoName
                  /\ calls["main"] = << >>))
    /\ [][/\ pc'["main"] = "start" => pc["main"] = "start"
          /\ pc["main"] = "wait" => pc'["main"] = "wait"
          /\ (pc["main"] # "wait" /\ pc'["main"] = "wait")
             => (/\ pc["main"] = "loop"
                 /\ pending["main"] = EmptyMap
                 /\ \A t \in Background : pc[t] = "off" /\ pc'[t] = "idle")
          /\ \A t \in Background :
                calls'[t] # calls[t] => pc["main"] = "wait"]_vars

\* C17 witness: main waits after an initial pass that recorded a hostname,
\* and the watcher has a provider call of its own pass behind it.
C17_Witness ==
    /\ pc["main"] = "wait"
    /\ synced # EmptyMap
    /\ Len(calls["watcher"]) > 0

\* ------------------------------------------------------- addToMappings

\* The snapshots a discovery source can hand to addToMappings.
Snapshots == UNION {[S -> 1..MaxPrio] : S \in SUBSET Hosts}

\* Two snapshots and an empty map, as in GetInitialMappings.
InitMerge ==
    /\ input \in Snapshots \X Snapshots
    /\ output = [current |-> EmptyMap, merged |-> << >>]
    /\ EngineAside
    /\ LoopsAside

\* addToMappings(current, input[i])
Merge(i) ==
    /\ Len(output.merged) < MaxMerges
    /\ output' = [current |-> addToMappings(output.current, input[i]),
                  merged |-> Append(output.merged, i)]
    /\ UNCHANGED <<input, pc, engineVars, loopVars>>

NextMerge == \E i \in 1..2 : Merge(i)

SpecMerge == InitMerge /\ [][NextMerge]_vars

\* The snapshots merged so far.
Merged == {output.merged[k] : k \in 1..Len(output.merged)}

\* The priorities the merged snapshots give the hostname h.
Observed(h) == {input[i][h] : i \in {j \in Merged : h \in DOMAIN input[j]}}

\* C14: the merged map holds the hostnames of the merged snapshots, each
\* at the minimum priority observed for it; merging a snapshot that was
\* merged before changes nothing; and the two orders of merging the two
\* snapshots into an empty map give the same map.
C14_MergeKeepsMinimum ==
    /\ [](/\ DOMAIN output.current = {h \in Hosts : Observed(h) # {}}
          /\ \A h \in DOMAIN output.current :
                /\ output.current[h] \in Observed(h)
                /\ \A p \in Observed(h) : output.current[h] <= p
          /\ addToMappings(addToMappings(EmptyMap, input[1]), input[2])
             = addToMappings(addToMappings(EmptyMap, input[2]), input[1]))
    /\ [][\A i \in Merged :
            output'.merged = Append(output.merged, i)
            => output'.current = output.current]_vars

\* C14 witness: {h: 2} and {h: 1} were merged, then {h: 2} again, and the
\* map is {h: 1}.
C14_Witness ==
    /\ input = <<MapOf({AppHost}, 2), MapOf({AppHost}, 1)>>
    /\ output.merged = <<1, 2, 1>>
    /\ output.current = MapOf({AppHost}, 1)

\* ---------------------------------------------------- isDomainExcluded

\* The hostnames given to isDomainExcluded: the strings over the letters of
\* the needle "i.e.c", and the two hostnames of the engine that contain
\* the domain name.
Letters == {"i", ".", "e", "c"}

HostStrings ==
    UNION {[1..n -> Letters] : n \in 0..MaxHostLen} \cup {AppHost, InternalHost}

\* The domains given to it: the two configured ones, and DOMAIN1 with two
\* excluded labels and with a label of two letters.
ExcludedCases ==
    { Domains[1], Domains[2],
      [Domains[1] EXCEPT !.ExcludedSubDomains = << <<"c">>, <<"i">> >>],
      [Domains[1] EXCEPT !.ExcludedSubDomains = << <<"e", "i">> >>] }

InitExcluded ==
    /\ input \in HostStrings \X ExcludedCases
    /\ output = << >>
    /\ EngineAside
    /\ LoopsAside

\* The call isDomainExcluded(name, dom) of pointDomain.
CheckExcluded ==
    /\ output = << >>
    /\ output' = <<isDomainExcluded(input[1], input[2])>>
    /\ UNCHANGED <<input, pc, engineVars, loopVars>>

SpecExcluded == InitExcluded /\ [][CheckExcluded]_vars

\* The string n holds the string w at the offset off.
HoldsAt(n, w, off) ==
    /\ off + Len(w) <= Len(n)
    /\ \A j \in 1..Len(w) : n[off + j] = w[j]

\* C15: the result is true iff for one of the domain's excluded labels the
\* hostname holds, at some offset, the label, a dot and the domain name;
\* it is true for a.i.e.c (api.internal.example.com) and false for a.e.c
\* (api.example.com) with the domain e.c and the excluded label i.
C15_ExcludedIffContainsLabelDotDomain ==
    output # << >>
    => LET n == input[1]
           dom == input[2]
       IN  /\ output[1] =
                (\E k \in 1..Len(dom.ExcludedSubDomains) :
                   \E off \in 0..Len(n) :
                     HoldsAt(n, dom.ExcludedSubDomains[k] \o <<".">> \o dom.Name,
                             off))
           /\ (n = InternalHost /\ dom = Domains[1]) => output[1]
           /\ (n = AppHost /\ dom = Domains[1]) => ~output[1]

\* C15 witness: a.i.e.c was found excluded for DOMAIN1.
C15_Witness ==
    /\ input = <<InternalHost, Domains[1]>>
    /\ output = <<TRUE>>

\* ---------------------------------------------------------- task loops
\*
\* main, RunTraefikPoller and RunDockerEventWatch around SyncMappings. A
\* SyncMappings call is one step here; what it does is the engine above.
\* Positions: main start, sync, wait, exit; the poller off, select, done;
\* the watcher off, connect, select, sleep, done.

\* time.Now().Unix() when RunDockerEventWatch starts.
StartTime == 1

\* The messages of logger.Errorf, with the scope of a recovered panic.
ScanFailed == <<"failed to get initial mappings", "">>

WatcherError == <<"docker event watcher error", "">>

Recovered(scope) == <<"recovered panic in", scope>>

\* runWithRecover that lets the panic of fn through.
runWithRecover_NoRecover(scope, panics, log) ==
    [log |-> log, crashed |-> panics]

\* runWithRecover(logger, scope, fn) for an fn that panics or not: the log
\* afterwards, and whether the panic leaves runWithRecover.
runWithRecover(scope, panics, log) ==
    [log |-> IF panics THEN Append(log, Recovered(scope)) ELSE log,
     crashed |-> FALSE]

\* The positions after a call of runWithRecover by a task that goes on at
\* the position next: a panic that is not recovered ends the process.
AfterRun(r, t, next) ==
    IF r.crashed
    THEN [u \in Tasks |-> "crashed"]
    ELSE [pc EXCEPT ![t] = next]

InitLoops ==
    /\ EngineAside
    /\ LoopsAside
    /\ FnAside

\* Whether the fn given to runWithRecover panics: any of the two, as long
\* as the log has room for the message.
Panics == IF Len(logged) < MaxLog THEN BOOLEAN ELSE {FALSE}

\* initialMappings after the closure of main that keeps what an
\* enumeration collected although the enumeration failed.
ScanResult_KeepsPartial(outcome, m) == m

\* initialMappings after the closure of main: the map GetInitialMappings
\* returned, or the empty map the variable was made with when
\* GetInitialMappings failed or panicked before the assignment.
ScanResult(outcome, m) == IF outcome = "ok" THEN m ELSE EmptyMap

\* main: GetInitialMappings under runWithRecover; an error is logged and
\* the initial mappings stay empty. main goes on to SyncMappings.
ScanInitial ==
    /\ pc["main"] = "start"
    /\ \E outcome \in {"ok", "error", "panic"} :
         /\ outcome # "ok" => Len(logged) < MaxLog
         /\ \E D \in Reports :
              pending' = [pending EXCEPT
                             !["main"] = ScanResult(outcome, MapOf(D, 1))]
         /\ LET r == runWithRecover("initial-mapping", outcome = "panic",
                                    IF outcome = "error"
                                    THEN Append(logged, ScanFailed)
                                    ELSE logged)
            IN  /\ logged' = r.log
                /\ pc' = AfterRun(r, "main", "sync")
    /\ UNCHANGED <<since, stream, cancelled, cfg, synced, syncedM, remote, name,
                   source, di, records, ri, ok, calls, listed, failed,
                   skipped, owed, fnVars>>

\* main: SyncMappings(initialMappings) returns, the two goroutines start
\* and main waits for ctx; RunDockerEventWatch sets its cursor to now.
StartLoops ==
    /\ pc["main"] = "sync"
    /\ pc' = [pc EXCEPT !["main"] = "wait", !["poller"] = "select",
                        !["watcher"] = "connect"]
    /\ pending' = [pending EXCEPT !["main"] = EmptyMap]
    /\ since' = StartTime
    /\ UNCHANGED <<stream, logged, cancelled, cfg, synced, syncedM, remote, name,
                   source, di, records, ri, ok, calls, listed, failed,
                   skipped, owed, fnVars>>

\* An interrupt or SIGTERM ends ctx.
Cancel ==
    /\ ~cancelled
    /\ pc["main"] \in {"start", "sync", "wait"}
    /\ cancelled' = TRUE
    /\ UNCHANGED <<pc, since, stream, logged, engineVars, fnVars>>

\* main: <-ctx.Done() and wg.Wait() return.
MainExit ==
    /\ pc["main"] = "wait"
    /\ cancelled
    /\ pc["poller"] = "done"
    /\ pc["watcher"] = "done"
    /\ pc' = [pc EXCEPT !["main"] = "exit"]
    /\ UNCHANGED <<loopVars, engineVars, fnVars>>

\* RunTraefikPoller: the select takes <-ctx.Done().
PollerDone ==
    /\ pc["poller"] = "select"
    /\ cancelled
    /\ pc' = [pc EXCEPT !["poller"] = "done"]
    /\ UNCHANGED <<loopVars, engineVars, fnVars>>

\* RunTraefikPoller: the select takes <-ticker.C; checkTraefik and
\* SyncMappings run under runWithRecover, and the loop selects again.
Tick ==
    /\ pc["poller"] = "select"
    /\ \E panics \in Panics :
         LET r == runWithRecover("traefik-poller", panics, logged)
         IN  /\ logged' = r.log
             /\ pc' = AfterRun(r, "poller", "select")
    /\ UNCHANGED <<since, stream, cancelled, engineVars, fnVars>>

\* The head of the outer loop without its ctx.Err() check: the watcher
\* subscribes again whatever the state of ctx.
Connect_NoCtxCheck ==
    /\ pc["watcher"] = "connect"
    /\ pc' = [pc EXCEPT !["watcher"] = "select"]
    /\ stream' = [stream EXCEPT !.state = "open", !.since = since]
    /\ UNCHANGED <<since, logged, cancelled, engineVars, fnVars>>

\* RunDockerEventWatch, the head of the outer loop: return when ctx is
\* done, otherwise subscribe to the events since the cursor.
Connect ==
    /\ pc["watcher"] = "connect"
    /\ IF cancelled
       THEN /\ pc' = [pc EXCEPT !["watcher"] = "done"]
            /\ UNCHANGED stream
       ELSE /\ pc' = [pc EXCEPT !["watcher"] = "select"]
            /\ stream' = [stream EXCEPT !.state = "open", !.since = since]
    /\ UNCHANGED <<since, logged, cancelled, engineVars, fnVars>>

\* RunDockerEventWatch: the select takes <-ctx.Done().
WatcherDone ==
    /\ pc["watcher"] = "select"
    /\ cancelled
    /\ pc' = [pc EXCEPT !["watcher"] = "done"]
    /\ UNCHANGED <<loopVars, engineVars, fnVars>>

\* RunDockerEventWatch: the select takes a value from errCh. An error
\* other than context.Canceled is logged and followed by the sleep; nil
\* and context.Canceled go to reconnect at once.
StreamError ==
    /\ pc["watcher"] = "select"
    /\ stream.state = "open"
    /\ \E kind \in {"error", "nil", "canceled"} :
         /\ kind = "canceled" => cancelled
         /\ IF kind = "error"
            THEN /\ Len(logged) < MaxLog
                 /\ logged' = Append(logged, WatcherError)
                 /\ pc' = [pc EXCEPT !["watcher"] = "sleep"]
            ELSE /\ logged' = logged
                 /\ pc' = [pc EXCEPT !["watcher"] = "connect"]
    /\ stream' = [stream EXCEPT !.state = "failed"]
    /\ UNCHANGED <<since, cancelled, engineVars, fnVars>>

\* The watcher that returns when it finds eventCh closed.
StreamClosed_Returns ==
    /\ pc["watcher"] = "select"
    /\ stream.state = "open"
    /\ stream' = [stream EXCEPT !.state = "closed"]
    /\ pc' = [pc EXCEPT !["watcher"] = "done"]
    /\ UNCHANGED <<since, logged, cancelled, engineVars, fnVars>>

\* RunDockerEventWatch: the select finds eventCh closed and goes to
\* reconnect.
StreamClosed ==
    /\ pc["watcher"] = "select"
    /\ stream.state = "open"
    /\ stream' = [stream EXCEPT !.state = "closed"]
    /\ pc' = [pc EXCEPT !["watcher"] = "connect"]
    /\ UNCHANGED <<since, logged, cancelled, engineVars, fnVars>>

\* RunDockerEventWatch: time.Sleep(2 * time.Second) returns.
Backoff ==
    /\ pc["watcher"] = "sleep"
    /\ stream' = [stream EXCEPT !.state = "backedoff"]
    /\ pc' = [pc EXCEPT !["watcher"] = "connect"]
    /\ UNCHANGED <<since, logged, cancelled, engineVars, fnVars>>

\* The watcher with the cursor set after processDockerEvent and
\* SyncMappings: an event whose processing panics leaves the cursor.
Event_CursorLast ==
    /\ pc["watcher"] = "select"
    /\ stream.state = "open"
    /\ \E time \in 0..MaxTime : \E panics \in Panics :
         LET r == runWithRecover("docker-event-watch", panics, logged)
         IN  /\ since' = IF panics THEN since ELSE time
             /\ stream' = [stream EXCEPT !.last = time]
             /\ logged' = r.log
             /\ pc' = AfterRun(r, "watcher", "select")
    /\ UNCHANGED <<cancelled, engineVars, fnVars>>

\* RunDockerEventWatch: the select takes an event. Under runWithRecover
\* the cursor is set to the event's time, then processDockerEvent and
\* SyncMappings run; the loop selects again.
Event ==
    /\ pc["watcher"] = "select"
    /\ stream.state = "open"
    /\ \E time \in 0..MaxTime : \E panics \in Panics :
         LET r == runWithRecover("docker-event-watch", panics, logged)
         IN  /\ since' = time
             /\ stream' = [stream EXCEPT !.last = time]
             /\ logged' = r.log
             /\ pc' = AfterRun(r, "watcher", "select")
    /\ UNCHANGED <<cancelled, engineVars, fnVars>>

NextLoops ==
    \/ ScanInitial
    \/ StartLoops
    \/ Cancel
    \/ MainExit
    \/ PollerDone
    \/ Tick
    \/ Connect
    \/ WatcherDone
    \/ StreamError
    \/ StreamClosed
    \/ Backoff
    \/ Event

SpecLoops == InitLoops /\ [][NextLoops]_vars

\* The task loops with the scheduling of the Go runtime: main, the
\* watcher's reconnect path and its sleep go on when they can, and a
\* select whose ctx.Done() case stays ready takes it in the end.
SpecLoopsFair ==
    /\ SpecLoops
    /\ WF_vars(ScanInitial)
    /\ WF_vars(StartLoops)
    /\ WF_vars(MainExit)
    /\ WF_vars(PollerDone)
    /\ WF_vars(Connect)
    /\ WF_vars(WatcherDone)
    /\ WF_vars(Backoff)

\* The message m was logged.
Logged(m) == \E i \in 1..Len(logged) : logged[i] = m

\* The message m is written in this step.
Writes(m) ==
    /\ Len(logged') = Len(logged) + 1
    /\ logged'[Len(logged')] = m

\* C16: once the failure of the initial scan is logged no background task
\* is ever started: the poller and the watcher stay off.
C16_ScanFailureIsFatal ==
    Logged(ScanFailed) => \A t \in Background : pc[t] = "off"

\* C16, as the code has it: the step that logs the failure of the initial
\* scan leaves the initial mappings empty and takes main on to its
\* SyncMappings, no background task started yet; from there main goes only
\* to the start of the two background tasks; no scan failure ends a task.
C16_ScanFailureIsLogged ==
    /\ [](\A t \in Tasks : pc[t] # "crashed")
    /\ [][/\ Writes(ScanFailed)
             => /\ pc["main"] = "start"
                /\ pc'["main"] = "sync"
                /\ pending'["main"] = EmptyMap
                /\ \A t \in Background : pc'[t] = "off"
          /\ (pc["main"] = "sync" /\ pc'["main"] # "sync")
             => /\ pc'["main"] = "wait"
                /\ pc'["poller"] = "select"
                /\ pc'["watcher"] = "connect"]_vars

\* C16 witness: the failure of the initial scan is logged and both
\* background tasks run, the watcher subscribed.
C16_Witness ==
    /\ Logged(ScanFailed)
    /\ pc["main"] = "wait"
    /\ pc["poller"] = "select"
    /\ pc["watcher"] = "select"
    /\ stream.state = "open"

\* C18: a subscription is opened only as the first one or after the
\* backoff that follows the end of the previous one, and it starts from
\* the cursor.
C18_BackoffBeforeReconnect ==
    [][(stream'.state = "open" /\ stream.state # "open")
       => /\ stream.state \in {"none", "backedoff"}
          /\ stream'.since = since]_vars

\* C19: no step decreases the cursor.
C19_CursorNeverDecreases ==
    [][since' >= since]_vars

\* C19, as the code has it: every received event sets the cursor to its
\* time, nothing else moves the cursor once the watcher has started, and
\* the cursor goes down only when an event is older than the cursor.
C19_CursorFollowsEvents ==
    [][/\ Event => since' = stream'.last
       /\ since' # since => (Event \/ StartLoops)
       /\ since' < since => (Event /\ stream'.last < since)]_vars

\* C19 witness: an event has moved the cursor up to MaxTime and the
\* subscription after a reconnect starts there.
C19_Witness ==
    /\ since = MaxTime
    /\ stream.last = MaxTime
    /\ stream.state = "open"
    /\ stream.since = MaxTime

\* C20: no task and no process ends by a panic; the step that logs the
\* recovered panic of a tick or of an event leaves the poller and the
\* watcher where they are, in the select of their loop, and leaves the
\* subscription as it is.
C20_PanicIsRecovered ==
    /\ [](\A t \in Tasks : pc[t] # "crashed")
    /\ [][/\ Writes(Recovered("traefik-poller"))
             => (pc' = pc /\ pc["poller"] = "select"
                 /\ stream'.state = stream.state)
          /\ Writes(Recovered("docker-event-watch"))
             => (pc' = pc /\ pc["watcher"] = "select"
                 /\ stream'.state = stream.state)]_vars

\* C20 witness: after a panic of an event, a panic of a tick and a second
\* panic of an event both loops are in their select, the subscription
\* open.
C20_Witness ==
    /\ logged = <<Recovered("docker-event-watch"), Recovered("traefik-poller"),
                  Recovered("docker-event-watch")>>
    /\ pc["poller"] = "select"
    /\ pc["watcher"] = "select"
    /\ stream.state = "open"

\* The subscription has ended and no new one is open yet.
Ended == stream.state \in {"failed", "closed", "backedoff"}

\* C21: the watcher returns only when ctx is done; the end of a
\* subscription by an error or by closure takes the watcher to its
\* reconnect path, and from there, as long as ctx is not done, a new
\* subscription is opened, however many have ended before.
C21_WatcherEndsOnlyOnCancel ==
    /\ [][/\ (pc["watcher"] # "done" /\ pc'["watcher"] = "done") => cancelled
          /\ (~Ended /\ Ended')
             => pc'["watcher"] \in {"connect", "sleep"}]_vars
    /\ (Ended /\ ~cancelled) ~> (stream.state = "open" \/ cancelled)

\* C21 witness: three subscriptions have ended by an error and, ctx not
\* done, the watcher is subscribed again.
C21_Witness ==
    /\ logged = <<WatcherError, WatcherError, WatcherError>>
    /\ ~cancelled
    /\ pc["watcher"] = "select"
    /\ stream.state = "open"

\* C22: once ctx is done the poller and the watcher return and main
\* returns after them; main never returns while one of them runs.
C22_CancelEndsProcess ==
    /\ [](pc["main"] = "exit"
           => (pc["poller"] = "done" /\ pc["watcher"] = "done"))
    /\ cancelled ~> (pc["main"] = "exit")

\* C22 witness: ctx is done after a panic of an event was recovered and a
\* stream error was logged, and main has returned.
C22_Witness ==
    /\ cancelled
    /\ pc["main"] = "exit"
    /\ Logged(WatcherError)
    /\ Logged(Recovered("docker-event-watch"))

\* --------------------------------------------------------- rule parsers

\* The longest list of tokens or of predicates in a rule.
MaxTokens == 3

\* strings.Index(s, sub): the offset of the first occurrence, or -1.
Index(s, sub) ==
    LET at == {i \in 0..(Len(s) - Len(sub)) :
                  SubSeq(s, i + 1, i + Len(sub)) = sub}
    IN  IF at = {} THEN 0 - 1
        ELSE CHOOSE i \in at : \A j \in at : i <= j

\* The white space strings.TrimSpace removes.
IsSpace(c) == c \in {" ", "\t", "\n", "\r"}

\* strings.TrimSpace(s)
TrimSpace(s) ==
    LET ink == {i \in 1..Len(s) : ~IsSpace(s[i])}
    IN  IF ink = {} THEN << >>
        ELSE SubSeq(s, CHOOSE i \in ink : \A j \in ink : i <= j,
                       CHOOSE i \in ink : \A j \in ink : i >= j)

\* strings.Split(s, sep) for a separator of one character.
RECURSIVE Split(_, _)
Split(s, sep) ==
    LET at == Index(s, <<sep>>)
    IN  IF at = 0 - 1 THEN <<s>>
        ELSE <<SubSeq(s, 1, at)>> \o Split(SubSeq(s, at + 2, Len(s)), sep)

\* The loop of parseTraefikV1HostRule over the parts.
RECURSIVE CleanParts(_)
CleanParts(parts) ==
    IF parts = << >> THEN << >>
    ELSE LET clean == TrimSpace(Head(parts))
         IN  (IF clean # << >> THEN <<clean>> ELSE << >>)
             \o CleanParts(Tail(parts))

HostWord == <<"H", "o", "s", "t">>

HostColon == <<"H", "o", "s", "t", ":">>

\* parseTraefikV1HostRule(rule); nil and the empty slice are both << >>.
parseTraefikV1HostRule(rule) ==
    IF ~Contains(rule, HostWord) THEN << >>
    ELSE LET idx == Index(rule, HostColon)
         IN  IF idx = 0 - 1 THEN << >>
             ELSE CleanParts(
                      Split(TrimSpace(SubSeq(rule, idx + 6, Len(rule))), ","))

\* The tokens of a legacy list as they are written and as they are meant:
\* hostnames with and without white space around them, and empty tokens.
V1Tokens ==
    { [raw |-> <<"a">>, clean |-> <<"a">>],
      [raw |-> <<" ", "a">>, clean |-> <<"a">>],
      [raw |-> <<"b", ".", "c", " ">>, clean |-> <<"b", ".", "c">>],
      [raw |-> <<" ", "w", ".", "a", "\t">>, clean |-> <<"w", ".", "a">>],
      [raw |-> << >>, clean |-> << >>],
      [raw |-> <<" ">>, clean |-> << >>] }

\* What stands in front of the clause: nothing, another clause, or text
\* that holds the word Host without the colon.
V1Prefixes ==
    { << >>, <<"P", ":", "/", ";">>, <<"H", "o", "s", "t", " ">> }

\* What stands behind the list: nothing, or a further clause of the rule.
V1Suffixes ==
    { << >>, <<";", "P", ":", "/">> }

\* The tokens joined by commas.
RECURSIVE JoinRaw(_)
JoinRaw(tokens) ==
    IF tokens = << >> THEN << >>
    ELSE IF Len(tokens) = 1 THEN tokens[1].raw
    ELSE tokens[1].raw \o <<",">> \o JoinRaw(Tail(tokens))

\* The rule string of a case: the prefix, the clause Host: when the case
\* is a legacy one, the list, and the suffix.
V1Rule(c) ==
    c.prefix \o (IF c.legacy THEN HostColon ELSE << >>) \o JoinRaw(c.tokens)
             \o c.suffix

\* The hostnames the list of a case names, in order.
RECURSIVE Listed(_)
Listed(tokens) ==
    IF tokens = << >> THEN << >>
    ELSE (IF tokens[1].clean = << >> THEN << >> ELSE <<tokens[1].clean>>)
         \o Listed(Tail(tokens))

InitV1 ==
    /\ input \in [prefix : V1Prefixes, legacy : BOOLEAN, suffix : V1Suffixes,
                  tokens : UNION {[1..n -> V1Tokens] : n \in 0..MaxTokens}]
    /\ output = << >>
    /\ EngineAside
    /\ LoopsAside

\* The call parseTraefikV1HostRule(value) of checkContainerT1 and
\* checkServiceT1.
ParseV1 ==
    /\ output = << >>
    /\ output' = <<parseTraefikV1HostRule(V1Rule(input))>>
    /\ UNCHANGED <<input, pc, engineVars, loopVars>>

SpecV1 == InitV1 /\ [][ParseV1]_vars

\* C25: for a rule with the clause Host: and a comma-separated list the
\* result is the list's hostnames, trimmed, in order, without the empty
\* tokens; for a rule without Host: the result is empty.
C25_LegacyRuleGivesListedHosts ==
    output # << >>
    => output[1] = IF input.legacy THEN Listed(input.tokens) ELSE << >>

\* The back quote character, as an element of a string.
BackQuote == "bq"

\* The characters of the class [a-zA-Z0-9\.\-] of both expressions.
HostChars ==
    { "a", "b", "c", "d", "e", "f", "g", "h", "i", "j", "k", "l", "m", "n",
      "o", "p", "q", "r", "s", "t", "u", "v", "w", "x", "y", "z", "A", "B",
      "C", "D", "E", "F", "G", "H", "I", "J", "K", "L", "M", "N", "O", "P",
      "Q", "R", "S", "T", "U", "V", "W", "X", "Y", "Z", "0", "1", "2", "3",
      "4", "5", "6", "7", "8", "9", ".", "-" }

\* The length of the longest run of characters of the class that starts
\* at s[i]: what ([a-zA-Z0-9\.\-]+) takes, being greedy.
RunAt(s, i) ==
    LET runs == {k \in 0..(Len(s) - i + 1) :
                    \A j \in 0..(k - 1) : s[i + j] \in HostChars}
    IN  CHOOSE k \in runs : \A l \in runs : k >= l

\* A backtick, a non-empty run of the class and a backtick start at s[i].
QuotedAt(s, i) ==
    /\ i <= Len(s)
    /\ s[i] = BackQuote
    /\ RunAt(s, i + 1) >= 1
    /\ i + 1 + RunAt(s, i + 1) <= Len(s)
    /\ s[i + 1 + RunAt(s, i + 1)] = BackQuote

\* The run between the backticks of QuotedAt(s, i).
TokenAt(s, i) == SubSeq(s, i + 1, i + RunAt(s, i + 1))

\* rx.FindAllStringSubmatch(rule, -1) of parseTraefikV2Rule from s[i] on:
\* the leftmost match, then the matches behind it.
RECURSIVE FindQuoted(_, _)
FindQuoted(s, i) ==
    IF i > Len(s) THEN << >>
    ELSE IF QuotedAt(s, i)
    THEN <<TokenAt(s, i)>> \o FindQuoted(s, i + RunAt(s, i + 1) + 2)
    ELSE FindQuoted(s, i + 1)

\* parseTraefikV2Rule(rule): the first group of every match.
parseTraefikV2Rule(rule) == FindQuoted(rule, 1)

HostCall == <<"H", "o", "s", "t", "(">>

\* The expression of parseTraefikRouterRule matches at s[i]: Host(, a
\* quoted run and the closing parenthesis.
HostCallAt(s, i) ==
    /\ i + 4 <= Len(s)
    /\ SubSeq(s, i, i + 4) = HostCall
    /\ QuotedAt(s, i + 5)
    /\ i + 7 + RunAt(s, i + 6) <= Len(s)
    /\ s[i + 7 + RunAt(s, i + 6)] = ")"

\* rx.FindAllStringSubmatch(rule, -1) of parseTraefikRouterRule from s[i]
\* on.
RECURSIVE FindHostCalls(_, _)
FindHostCalls(s, i) ==
    IF i > Len(s) THEN << >>
    ELSE IF HostCallAt(s, i)
    THEN <<TokenAt(s, i + 5)>> \o FindHostCalls(s, i + RunAt(s, i + 6) + 8)
    ELSE FindHostCalls(s, i + 1)

\* parseTraefikRouterRule(rule): the first group of every match.
parseTraefikRouterRule(rule) == FindHostCalls(rule, 1)

\* The predicates of a modern rule: their text and the hostnames they
\* name: Host(a.c), Host(b-1), Method(G), PathPrefix(/f), each argument
\* between back quotes.
Predicates ==
    { [text |-> <<"H", "o", "s", "t", "(", BackQuote, "a", ".", "c", BackQuote, ")">>,
       hosts |-> << <<"a", ".", "c">> >>],
      [text |-> <<"H", "o", "s", "t", "(", BackQuote, "b", "-", "1", BackQuote, ")">>,
       hosts |-> << <<"b", "-", "1">> >>],
      [text |-> <<"M", "e", "t", "h", "o", "d", "(", BackQuote, "G", BackQuote, ")">>,
       hosts |-> << >>],
      [text |-> <<"P", "a", "t", "h", "P", "r", "e", "f", "i", "x", "(", BackQuote, "/", "f", BackQuote, ")">>,
       hosts |-> << >>] }

\* The operators between the predicates.
Connectives == { <<" ", "&", "&", " ">>, <<" ", "|", "|", " ">> }

\* The rule string of a case: its predicates with its connective between
\* them.
RECURSIVE V2Rule(_, _)
V2Rule(preds, op) ==
    IF preds = << >> THEN << >>
    ELSE IF Len(preds) = 1 THEN preds[1].text
    ELSE preds[1].text \o op \o V2Rule(Tail(preds), op)

\* The hostnames of the Host( calls of a case, from left to right.
RECURSIVE HostsOf(_)
HostsOf(preds) ==
    IF preds = << >> THEN << >>
    ELSE preds[1].hosts \o HostsOf(Tail(preds))

InitV2 ==
    /\ input \in [op : Connectives,
                  preds : UNION {[1..n -> Predicates] : n \in 1..MaxTokens}]
    /\ output = << >>
    /\ EngineAside
    /\ LoopsAside

\* The rule of a label as checkContainerT2 and checkServiceT2 parse it,
\* and the same rule as checkTraefik parses it: both look for the word
\* Host first.
ParseV2 ==
    /\ output = << >>
    /\ LET rule == V2Rule(input.preds, input.op)
       IN  output' = IF Contains(rule, HostWord)
                     THEN <<parseTraefikV2Rule(rule),
                            parseTraefikRouterRule(rule)>>
                     ELSE << << >>, << >> >>
    /\ UNCHANGED <<input, pc, engineVars, loopVars>>

SpecV2 == InitV2 /\ [][ParseV2]_vars

\* C26: for a modern rule both the parser of the labels and the parser of
\* the polled routes return the hostnames of the rule's Host( calls, from
\* left to right, and nothing else.
C26_ModernRuleGivesHostCalls ==
    output # << >>
    => /\ output[1] = HostsOf(input.preds)
       /\ output[2] = HostsOf(input.preds)

\* ------------------------------------------------------ the Traefik poll

\* The longest response body, in JSON tokens.
MaxBody == 5

\* http.StatusOK
StatusOK == 200

\* http.StatusBadGateway, the status of an error page.
StatusBadGateway == 502

\* The tokens of a body: brackets, comma, the literal null, text that is
\* no JSON, and two router objects.
JSONTokens == {"[", "]", ",", "null", "x", "ra", "rb"}

\* The rule Host(h) of a router, h between back quotes.
HostRule(h) == HostCall \o <<BackQuote>> \o h \o <<BackQuote, ")">>

\* The TraefikRouter an element of the array decodes to: the two router
\* objects, and the zero value for null.
RouterOf(tok) ==
    IF tok = "ra"
    THEN [Name |-> "web", Rule |-> HostRule(AppHost), Status |-> "enabled"]
    ELSE IF tok = "rb"
    THEN [Name |-> "internal",
          Rule |-> HostRule(InternalHost) \o <<" ", "&", "&", " ">>
                   \o <<"P", "(", BackQuote, "/", BackQuote, ")">>,
          Status |-> "enabled"]
    ELSE [Name |-> "", Rule |-> << >>, Status |-> ""]

\* A []TraefikRouter: nil, or a slice with its items.
NilRouters == [nil |-> TRUE, items |-> << >>]

\* The body is a JSON array whose elements json.Unmarshal can store in a
\* TraefikRouter: [ ], or [ e , e ... ] with every e an object or null.
IsRouterArray(body) ==
    /\ Len(body) >= 2
    /\ body[1] = "["
    /\ body[Len(body)] = "]"
    /\ \/ Len(body) = 2
       \/ /\ Len(body) % 2 = 1
          /\ \A i \in 2..(Len(body) - 1) :
                IF i % 2 = 0 THEN body[i] \in {"ra", "rb", "null"}
                ELSE body[i] = ","

\* json.Unmarshal(bodyBytes, &routers) on a nil slice: the literal null
\* leaves the slice nil and is no error, an array fills it, and anything
\* else is an error.
Unmarshal(body) ==
    IF body = <<"null">>
    THEN [routers |-> NilRouters, err |-> FALSE]
    ELSE IF IsRouterArray(body)
    THEN [routers |->
              [nil |-> FALSE,
               items |-> [i \in 1..(Len(body) \div 2) |-> RouterOf(body[2 * i])]],
          err |-> FALSE]
    ELSE [routers |-> NilRouters, err |-> TRUE]

\* FetchTraefikRouters that reports a status other than 200 as an error.
FetchTraefikRouters_StatusIsError(r) ==
    IF r.transport = "do"
    THEN [routers |-> NilRouters, status |-> 0, body |-> << >>, err |-> "do"]
    ELSE IF r.transport = "read"
    THEN [routers |-> NilRouters, status |-> r.status, body |-> << >>,
          err |-> "read"]
    ELSE IF r.status # StatusOK
    THEN [routers |-> NilRouters, status |-> r.status, body |-> r.body,
          err |-> "status"]
    ELSE IF Unmarshal(r.body).err
    THEN [routers |-> NilRouters, status |-> r.status, body |-> r.body,
          err |-> "decode"]
    ELSE [routers |-> Unmarshal(r.body).routers, status |-> r.status,
          body |-> r.body, err |-> ""]

\* FetchTraefikRouters for the outcome r of the HTTP exchange: the request
\* fails, reading the body fails, or a status and a body arrive. The
\* result is (routers, status, body, err), err "" for nil.
FetchTraefikRouters(r) ==
    IF r.transport = "do"
    THEN [routers |-> NilRouters, status |-> 0, body |-> << >>, err |-> "do"]
    ELSE IF r.transport = "read"
    THEN [routers |-> NilRouters, status |-> r.status, body |-> << >>,
          err |-> "read"]
    ELSE IF r.status # StatusOK
    THEN [routers |-> NilRouters, status |-> r.status, body |-> r.body,
          err |-> ""]
    ELSE IF Unmarshal(r.body).err
    THEN [routers |-> NilRouters, status |-> r.status, body |-> r.body,
          err |-> "decode"]
    ELSE [routers |-> Unmarshal(r.body).routers, status |-> r.status,
          body |-> r.body, err |-> ""]

\* The bodies a server can send.
Bodies == UNION {[1..n -> JSONTokens] : n \in 0..MaxBody}

\* The outcomes of the HTTP exchange.
Exchanges ==
    [transport : {"ok"}, status : {StatusOK, StatusBadGateway}, body : Bodies]
    \cup [transport : {"do", "read"}, status : {StatusOK, StatusBadGateway},
          body : {<<"[", "ra", "]">>}]

InitFetch ==
    /\ input \in Exchanges
    /\ output = << >>
    /\ EngineAside
    /\ LoopsAside

\* The call of FetchTraefikRouters by checkTraefik.
Fetch ==
    /\ output = << >>
    /\ output' = <<FetchTraefikRouters(input)>>
    /\ UNCHANGED <<input, pc, engineVars, loopVars>>

SpecFetch == InitFetch /\ [][Fetch]_vars

\* C24, as stated: with a response, a status other than 200 gives nil
\* routers, the status, the body and no error; status 200 with a body that
\* is no array of routers gives nil routers, 200, the body and a decode
\* error; and routers with no error come only from status 200 with an
\* array of routers.
C24_FetchOutcomes ==
    (output # << >> /\ input.transport = "ok")
    => LET f == output[1]
       IN  /\ f.status = input.status
           /\ f.body = input.body
           /\ input.status # StatusOK => (f.routers.nil /\ f.err = "")
           /\ (input.status = StatusOK /\ ~IsRouterArray(input.body))
              => (f.routers.nil /\ f.err = "decode")
           /\ (~f.routers.nil /\ f.err = "")
              => (input.status = StatusOK /\ IsRouterArray(input.body))

\* C24, as the code has it: the same, except that the body null with
\* status 200 is no decode error: it gives nil routers, 200, the body and
\* no error. An array of routers with status 200 gives its routers and no
\* error.
C24_FetchOutcomesWithNull ==
    (output # << >> /\ input.transport = "ok")
    => LET f == output[1]
       IN  /\ f.status = input.status
           /\ f.body = input.body
           /\ input.status # StatusOK => (f.routers.nil /\ f.err = "")
           /\ (input.status = StatusOK /\ ~IsRouterArray(input.body)
               /\ input.body # <<"null">>)
              => (f.routers.nil /\ f.err = "decode")
           /\ (input.status = StatusOK /\ input.body = <<"null">>)
              => (f.routers.nil /\ f.err = "")
           /\ (input.status = StatusOK /\ IsRouterArray(input.body))
              => /\ ~f.routers.nil
                 /\ f.err = ""
                 /\ Len(f.routers.items) = Len(input.body) \div 2
           /\ (~f.routers.nil /\ f.err = "")
              => (input.status = StatusOK /\ IsRouterArray(input.body))

\* C24 witness: the body null came with status 200 and the result is nil
\* routers, 200, the body and no error.
C24_Witness ==
    /\ output # << >>
    /\ input = [transport |-> "ok", status |-> StatusOK, body |-> <<"null">>]
    /\ output[1] = [routers |-> NilRouters, status |-> StatusOK,
                    body |-> <<"null">>, err |-> ""]

\* re.MatchString(text) for the expressions in use: .* finds a match in
\* every text; any other expression is a run of characters, a dot standing
\* for any one character, with ^ in front or $ behind to tie it to the
\* start or the end of the text, and finds a match wherever the run occurs.
MatchString(re, text) ==
    IF re = <<".", "*">> THEN TRUE
    ELSE LET atStart == Len(re) > 0 /\ re[1] = "^"
             atEnd == Len(re) > 0 /\ re[Len(re)] = "$"
             body == SubSeq(re, IF atStart THEN 2 ELSE 1,
                            IF atEnd THEN Len(re) - 1 ELSE Len(re))
         IN  \E i \in 1..(Len(text) - Len(body) + 1) :
                /\ atStart => i = 1
                /\ atEnd => i + Len(body) - 1 = Len(text)
                /\ \A k \in 1..Len(body) :
                      body[k] = "." \/ body[k] = text[i + k - 1]

\* isMatching(host, regexes)
isMatching(host, regexes) ==
    \E i \in 1..Len(regexes) : MatchString(regexes[i], host)

\* cfg.IncludedHosts and cfg.ExcludedHosts with no TRAEFIK_INCLUDED_HOSTn
\* and no TRAEFIK_EXCLUDED_HOSTn set.
IncludedHosts == << <<".", "*">> >>

ExcludedHosts == << >>

\* RouterHosts that does not apply the exclude patterns.
RouterHosts_NoExclude(items, included, excluded) ==
    UNION { LET router == items[i]
                extracted == parseTraefikRouterRule(router.Rule)
            IN  IF \/ router.Status # "enabled"
                   \/ router.Name = ""
                   \/ ~Contains(router.Rule, HostWord)
                THEN {}
                ELSE {extracted[k] :
                        k \in {n \in 1..Len(extracted) :
                                 isMatching(extracted[n], included)}} :
            i \in 1..Len(items) }

\* checkTraefik, the loop over the routers: the hostnames it puts into
\* the mapping, those extracted from the rules of the enabled, named
\* routers whose rule holds the word Host, that match an include pattern
\* and no exclude pattern.
RouterHosts(items, included, excluded) ==
    UNION { LET router == items[i]
                extracted == parseTraefikRouterRule(router.Rule)
            IN  IF \/ router.Status # "enabled"
                   \/ router.Name = ""
                   \/ ~Contains(router.Rule, HostWord)
                THEN {}
                ELSE {extracted[k] :
                        k \in {n \in 1..Len(extracted) :
                                 /\ isMatching(extracted[n], included)
                                 /\ ~isMatching(extracted[n], excluded)}} :
            i \in 1..Len(items) }

\* The hostnames checkTraefik takes from the routers with the default
\* filters.
PolledHosts(routers) ==
    RouterHosts(routers.items, IncludedHosts, ExcludedHosts)

\* checkTraefik without its test of the status code.
checkTraefik_IgnoresStatus(r) ==
    LET f == FetchTraefikRouters(r)
    IN  IF f.err # "" THEN EmptyMap
        ELSE MapOf(PolledHosts(Unmarshal(r.body).routers), 2)

\* checkTraefik for the outcome r of the HTTP exchange: the mapping it
\* returns.
checkTraefik(r) ==
    LET f == FetchTraefikRouters(r)
    IN  IF f.err # "" THEN EmptyMap
        ELSE IF f.status # StatusOK THEN EmptyMap
        ELSE MapOf(PolledHosts(f.routers), 2)

\* No exchange yet.
NoExchange == [transport |-> "none", status |-> 0, body |-> << >>]

\* The exchanges of the poller's ticks: failed requests, error pages,
\* bodies that do not decode, and bodies with no, one and two routers.
PollExchanges ==
    [transport : {"do", "read"}, status : {StatusOK}, body : {<<"[", "]">>}]
    \cup [transport : {"ok"}, status : {StatusBadGateway},
          body : {<<"x">>, <<"[", "ra", "]">>}]
    \cup [transport : {"ok"}, status : {StatusOK},
          body : {<<"x">>, <<"[", "ra">>, <<"null">>, <<"[", "]">>,
                  <<"[", "null", "]">>, <<"[", "ra", "]">>,
                  <<"[", "ra", ",", "rb", "]">>}]

\* The poller runs, the initial pass over and the event watcher not
\* enabled; nothing synced yet.
InitPoll ==
    /\ cfg \in [DryRun : BOOLEAN, RefreshEntries : BOOLEAN]
    /\ remote \in InitialRemotes
    /\ owed = Untracked
    /\ synced = EmptyMap
    /\ syncedM = Unlocked
    /\ skipped = [t \in Tasks |-> {}]
    /\ pc = [t \in Tasks |->
                IF t = "main" THEN "wait"
                ELSE IF t = "poller" THEN "idle" ELSE "off"]
    /\ pending = [t \in Tasks |-> EmptyMap]
    /\ name = [t \in Tasks |-> NoName]
    /\ source = [t \in Tasks |-> 0]
    /\ di = [t \in Tasks |-> 0]
    /\ records = [t \in Tasks |-> << >>]
    /\ ri = [t \in Tasks |-> 0]
    /\ ok = [t \in Tasks |-> TRUE]
    /\ calls = [t \in Tasks |-> << >>]
    /\ listed = [t \in Tasks |-> {}]
    /\ failed = [t \in Tasks |-> FALSE]
    /\ LoopsAside
    /\ input = NoExchange
    /\ output = NoExchange

\* RunTraefikPoller, one tick: checkTraefik for the exchange r, and
\* SyncMappings entered with its mapping. input is the exchange of this
\* tick, output the one of the tick before.
Poll ==
    /\ pc["poller"] = "idle"
    /\ \E r \in PollExchanges :
         /\ input' = r
         /\ pending' = [pending EXCEPT !["poller"] = checkTraefik(r)]
    /\ output' = input
    /\ pc' = [pc EXCEPT !["poller"] = "loop"]
    /\ UNCHANGED <<loopVars, cfg, synced, syncedM, remote, name, source, di, records,
                   ri, ok, calls, listed, failed, skipped, owed>>

NextPoll ==
    \/ Poll
    \/ SyncNext("poller")
    \/ ListDNSRecords("poller")
    \/ CreateDNSRecord("poller")
    \/ UpdateDNSRecord("poller")
    \/ PointDone("poller")
    \/ EndPass("poller")

SpecPoll == InitPoll /\ [][NextPoll]_vars

\* The exchange r is a failed poll: the request or the reading of the body
\* failed, the status is not 200, or the body does not decode.
PollFailed(r) ==
    \/ r.transport \in {"do", "read"}
    \/ /\ r.transport = "ok"
       /\ \/ r.status # StatusOK
          \/ ~IsRouterArray(r.body) /\ r.body # <<"null">>

\* C23: the pass of a failed poll has an empty mapping: it reconciles no
\* hostname and makes no provider call, its only step is the return of
\* SyncMappings, which leaves SyncedState and the provider's records as
\* they are and the poller ready for its next tick.
C23_FailedPollIsEmpty ==
    /\ []((PollFailed(input) /\ pc["poller"] # "idle")
          => (/\ pc["poller"] = "loop"
              /\ pending["poller"] = EmptyMap
              /\ name["poller"] = NoName
              /\ calls["poller"] = << >>))
    /\ [][(PollFailed(input) /\ pc["poller"] = "loop")
          => (/\ pc'["poller"] = "idle"
              /\ synced' = synced
              /\ remote' = remote
              /\ calls' = calls)]_vars

\* C23 witness: the tick after a failed poll found a router and is making
\* its provider calls.
C23_Witness ==
    /\ PollFailed(output)
    /\ input.transport = "ok"
    /\ ~PollFailed(input)
    /\ Len(calls["poller"]) > 0

\* -------------------------------------------------------------- secrets

UpperCase ==
    <<"A", "B", "C", "D", "E", "F", "G", "H", "I", "J", "K", "L", "M", "N",
      "O", "P", "Q", "R", "S", "T", "U", "V", "W", "X", "Y", "Z">>

LowerCase ==
    <<"a", "b", "c", "d", "e", "f", "g", "h", "i", "j", "k", "l", "m", "n",
      "o", "p", "q", "r", "s", "t", "u", "v", "w", "x", "y", "z">>

\* strings.ToLower(s)
ToLower(s) ==
    [i \in 1..Len(s) |->
        IF \E k \in 1..Len(UpperCase) : UpperCase[k] = s[i]
        THEN LowerCase[CHOOSE k \in 1..Len(UpperCase) : UpperCase[k] = s[i]]
        ELSE s[i]]

\* /run/secrets, the one entry of defaultSecretDirs, for short.
SecretDir == <<"/", "s">>

\* The suffix _FILE, for short.
FileSuffix == <<"_", "F">>

\* os.Getenv(name) in the environment env.
Getenv(env, n) == IF n \in DOMAIN env THEN env[n] ELSE << >>

\* os.ReadFile(path) in the file system fs, which gives every path it
\* knows 0 for no readable file, 1 for a file of white space and 2 for a
\* file that holds the path itself between a blank and a line feed: the
\* error, and the contents.
ReadFile(fs, path) ==
    IF path \notin DOMAIN fs \/ fs[path] = 0
    THEN [err |-> TRUE, contents |-> << >>]
    ELSE IF fs[path] = 1
    THEN [err |-> FALSE, contents |-> <<" ", "\n">>]
    ELSE [err |-> FALSE, contents |-> <<" ">> \o path \o <<"\n">>]

\* The loop of readSecretSpec over its paths.
RECURSIVE FirstFile(_, _)
FirstFile(fs, paths) ==
    IF paths = << >> THEN << >>
    ELSE LET f == ReadFile(fs, Head(paths))
         IN  IF ~f.err /\ TrimSpace(f.contents) # << >>
             THEN TrimSpace(f.contents)
             ELSE FirstFile(fs, Tail(paths))

\* readSecretSpec(spec)
readSecretSpec(fs, spec) ==
    LET sp == TrimSpace(spec)
    IN  IF sp = << >> THEN << >>
        ELSE FirstFile(fs, IF sp[1] # "/"
                           THEN <<sp, SecretDir \o <<"/">> \o sp>>
                           ELSE <<sp>>)

\* The loop of getSecretByEnv over fileSpecs.
RECURSIVE FirstSpec(_, _)
FirstSpec(fs, specs) ==
    IF specs = << >> THEN << >>
    ELSE IF readSecretSpec(fs, Head(specs)) # << >>
    THEN readSecretSpec(fs, Head(specs))
    ELSE FirstSpec(fs, Tail(specs))

\* The loop of getSecretByEnv over envCandidates.
RECURSIVE FirstEnv(_)
FirstEnv(values) ==
    IF values = << >> THEN << >>
    ELSE IF TrimSpace(Head(values)) # << >> THEN TrimSpace(Head(values))
    ELSE FirstEnv(Tail(values))

\* getSecretByEnv that looks at the environment values first.
getSecretByEnv_EnvFirst(env, fs, n) ==
    LET lowerName == ToLower(n)
        fileSpecs == <<Getenv(env, n \o FileSuffix),
                       Getenv(env, lowerName \o FileSuffix),
                       SecretDir \o <<"/">> \o n,
                       SecretDir \o <<"/">> \o lowerName>>
        envCandidates == <<Getenv(env, n), Getenv(env, lowerName)>>
    IN  IF FirstEnv(envCandidates) # << >> THEN FirstEnv(envCandidates)
        ELSE FirstSpec(fs, fileSpecs)

\* getSecretByEnv(name) in the environment env and the file system fs.
getSecretByEnv(env, fs, n) ==
    LET lowerName == ToLower(n)
        fileSpecs == <<Getenv(env, n \o FileSuffix),
                       Getenv(env, lowerName \o FileSuffix),
                       SecretDir \o <<"/">> \o n,
                       SecretDir \o <<"/">> \o lowerName>>
        envCandidates == <<Getenv(env, n), Getenv(env, lowerName)>>
    IN  IF FirstSpec(fs, fileSpecs) # << >> THEN FirstSpec(fs, fileSpecs)
        ELSE FirstEnv(envCandidates)

\* The secret asked for.
SecretName == <<"T">>

\* The files: an absolute path, a plain name in the working directory and
\* under the secret directory, and the two files the secret directory has
\* by default.
SecretPaths ==
    { <<"/", "a">>, <<"n">>, SecretDir \o <<"/", "n">>,
      SecretDir \o <<"/", "T">>, SecretDir \o <<"/", "t">> }

\* The values of a _FILE variable: unset, blank, an absolute path, a
\* plain name with a blank in front.
FileSpecs == { << >>, <<" ">>, <<"/", "a">>, <<" ", "n">> }

\* The environments: the two _FILE variables, and the two variables
\* themselves unset, blank or holding their own name between blanks.
SecretEnvs ==
    { (<<"T", "_", "F">> :> F1) @@ (<<"t", "_", "F">> :> F2)
      @@ (<<"T">> :> V1) @@ (<<"t">> :> V2) :
      F1 \in FileSpecs, F2 \in FileSpecs,
      V1 \in {<< >>, <<" ">>, <<" ", "T", " ">>},
      V2 \in {<< >>, <<" ">>, <<" ", "t", " ">>} }

InitSecret ==
    /\ input \in [env : SecretEnvs, fs : [SecretPaths -> 0..2]]
    /\ output = << >>
    /\ EngineAside
    /\ LoopsAside

\* A call getSecretByEnv(name) of LoadConfigFromEnv.
ResolveSecret ==
    /\ output = << >>
    /\ output' = <<getSecretByEnv(input.env, input.fs, SecretName)>>
    /\ UNCHANGED <<input, pc, engineVars, loopVars>>

SpecSecret == InitSecret /\ [][ResolveSecret]_vars

\* The value the file at path yields: the path it holds, or nothing.
Yield(fs, path) == IF fs[path] = 2 THEN path ELSE << >>

\* The values the file specification in the variable v yields, in order:
\* nothing when it is blank, the file it names, and for a plain name the
\* file of that name in the secret directory too.
YieldsOfSpec(c, v) ==
    IF c.env[v] \in {<< >>, <<" ">>} THEN << >>
    ELSE IF c.env[v] = <<"/", "a">> THEN <<Yield(c.fs, <<"/", "a">>)>>
    ELSE <<Yield(c.fs, <<"n">>), Yield(c.fs, SecretDir \o <<"/", "n">>)>>

\* The value the variable v yields: its name when it holds it.
YieldOfEnv(c, v) == IF c.env[v] \in {<< >>, <<" ">>} THEN << >> ELSE v

\* All candidates of a case in the order of resolution.
Candidates(c) ==
    YieldsOfSpec(c, <<"T", "_", "F">>) \o YieldsOfSpec(c, <<"t", "_", "F">>)
    \o <<Yield(c.fs, SecretDir \o <<"/", "T">>),
         Yield(c.fs, SecretDir \o <<"/", "t">>),
         YieldOfEnv(c, <<"T">>), YieldOfEnv(c, <<"t">>)>>

\* C28: the result is the first non-empty value, trimmed, in the order
\* <VAR>_FILE, <var>_FILE (a plain name also under the secret directory),
\* the secret directory's <VAR> and <var>, the values of <VAR> and <var>;
\* it is empty when no candidate has a value.
C28_SecretResolutionOrder ==
    output # << >>
    => LET cs == Candidates(input)
           full == {i \in 1..Len(cs) : cs[i] # << >>}
       IN  output[1] = IF full = {} THEN << >>
                       ELSE cs[CHOOSE i \in full : \A j \in full : i <= j]

\* C28 witness: <VAR>_FILE names a plain file that exists only under the
\* secret directory, every later source has a value too, and the result is
\* that file's value.
C28_Witness ==
    /\ output = <<SecretDir \o <<"/", "n">>>>
    /\ input.env[<<"T", "_", "F">>] = <<" ", "n">>
    /\ input.fs[<<"n">>] = 0
    /\ input.fs[SecretDir \o <<"/", "T">>] = 2
    /\ input.env[<<"T">>] = <<" ", "T", " ">>

\* -------------------------------------------------------- configuration

\* The names of the variables, for short: CF_TOKEN, TARGET_DOMAIN,
\* ENABLE_DOCKER_POLL, DOCKER_SWARM_MODE, TRAEFIK_FILTER, the keys DOMAIN1
\* and domain2, and the suffix _ZONE_ID.
TokenVar == <<"T">>

TargetVar == <<"G">>

DockerPollVar == <<"P">>

SwarmVar == <<"W">>

FilterVar == <<"F">>

ZoneSuffix == <<"_", "Z">>

\* sort.Strings of the two keys: the upper case one comes first.
DomainKeyOrder == << <<"D", "1">>, <<"d", "2">> >>

\* parseBoolLikePython(raw, defaultVal)
parseBoolLikePython(raw, defaultVal) ==
    IF raw = << >> THEN defaultVal
    ELSE IF ToLower(raw) = <<"t", "r", "u", "e">> THEN TRUE
    ELSE IF ToLower(raw) = <<"f", "a", "l", "s", "e">> THEN FALSE
    ELSE defaultVal

\* regexp.Compile(raw) succeeds: it does for every value of the model but
\* the open parenthesis.
Compiles(raw) == raw # <<"(">>

\* rxDoms.MatchString(name) for (?i)^DOMAIN[0-9]+$, DOMAIN for short D.
IsDomainKey(n) ==
    /\ Len(n) >= 2
    /\ ToLower(<<n[1]>>) = <<"d">>
    /\ \A i \in 2..Len(n) : n[i] \in {"0", "1", "2", "3", "4", "5", "6",
                                     "7", "8", "9"}

\* The keys of loadDomainConfigs: the names of os.Environ() that match,
\* sorted.
DomainKeys(env) ==
    SelectSeq(DomainKeyOrder, LAMBDA k : k \in DOMAIN env /\ IsDomainKey(k))

\* The loop of loadDomainConfigs over the keys: the error of the first key
\* without a zone id, or the domains.
RECURSIVE loadDomainConfigs(_, _, _)
loadDomainConfigs(env, fs, keys) ==
    IF keys = << >> THEN [err |-> "", doms |-> << >>]
    ELSE LET zone == getSecretByEnv(env, fs, Head(keys) \o ZoneSuffix)
             rest == loadDomainConfigs(env, fs, Tail(keys))
         IN  IF zone = << >>
             THEN [err |-> "ZONE_ID is not set", doms |-> << >>]
             ELSE IF rest.err # "" THEN rest
             ELSE [err |-> "",
                   doms |-> <<[Name |-> Getenv(env, Head(keys)),
                               ZoneID |-> zone]>> \o rest.doms]

\* A config that is not used, with the error.
Failure(msg) ==
    [err |-> msg,
     cfg |-> [EnableDockerPoll |-> FALSE, DockerSwarmMode |-> FALSE,
              CloudflareToken |-> << >>, TargetDomain |-> << >>,
              Domains |-> << >>]]

\* LoadConfigFromEnv without the test of DOCKER_SWARM_MODE against
\* ENABLE_DOCKER_POLL.
LoadConfigFromEnv_NoSwarmTest(env, fs) ==
    LET poll == parseBoolLikePython(Getenv(env, DockerPollVar), TRUE)
        swarm == parseBoolLikePython(Getenv(env, SwarmVar), FALSE)
        target == Getenv(env, TargetVar)
        filterRaw == Getenv(env, FilterVar)
        token == getSecretByEnv(env, fs, TokenVar)
        doms == loadDomainConfigs(env, fs, DomainKeys(env))
    IN  IF filterRaw # << >> /\ ~Compiles(filterRaw)
        THEN Failure("invalid TRAEFIK_FILTER regex")
        ELSE IF token = << >> THEN Failure("CF_TOKEN not defined")
        ELSE IF target = << >> THEN Failure("TARGET_DOMAIN not defined")
        ELSE IF doms.err # "" THEN Failure(doms.err)
        ELSE IF Len(doms.doms) = 0 THEN Failure("DOMAIN1 not defined")
        ELSE [err |-> "",
              cfg |-> [EnableDockerPoll |-> poll, DockerSwarmMode |-> swarm,
                       CloudflareToken |-> token, TargetDomain |-> target,
                       Domains |-> doms.doms]]

\* LoadConfigFromEnv() in the environment env and the file system fs: the
\* error, "" for nil, and the fields of the Config the startup depends on.
LoadConfigFromEnv(env, fs) ==
    LET poll == parseBoolLikePython(Getenv(env, DockerPollVar), TRUE)
        swarm == parseBoolLikePython(Getenv(env, SwarmVar), FALSE)
        target == Getenv(env, TargetVar)
        filterRaw == Getenv(env, FilterVar)
        token == getSecretByEnv(env, fs, TokenVar)
        doms == loadDomainConfigs(env, fs, DomainKeys(env))
    IN  IF filterRaw # << >> /\ ~Compiles(filterRaw)
        THEN Failure("invalid TRAEFIK_FILTER regex")
        ELSE IF token = << >> THEN Failure("CF_TOKEN not defined")
        ELSE IF target = << >> THEN Failure("TARGET_DOMAIN not defined")
        ELSE IF doms.err # "" THEN Failure(doms.err)
        ELSE IF Len(doms.doms) = 0 THEN Failure("DOMAIN1 not defined")
        ELSE IF ~poll /\ swarm THEN Failure("DOCKER_SWARM_MODE without poll")
        ELSE [err |-> "",
              cfg |-> [EnableDockerPoll |-> poll, DockerSwarmMode |-> swarm,
                       CloudflareToken |-> token, TargetDomain |-> target,
                       Domains |-> doms.doms]]

\* The environment with the variable n set to v, or left unset.
Setting(n, values) == {<< >>} \cup {n :> v : v \in values}

\* The environments of a start: the token unset, blank or set, the target
\* domain, DOMAIN1 and domain2 with their zone ids unset, blank or set,
\* ENABLE_DOCKER_POLL=FALSE, DOCKER_SWARM_MODE=True, and a filter that
\* does not compile.
StartEnvs ==
    { t @@ g @@ d1 @@ z1 @@ d2 @@ z2 @@ pl @@ sw @@ fl :
      t \in Setting(TokenVar, {<<" ">>, <<" ", "k">>}),
      g \in Setting(TargetVar, {TargetDomain}),
      d1 \in Setting(<<"D", "1">>, {Domains[1].Name}),
      z1 \in Setting(<<"D", "1">> \o ZoneSuffix, {<<"z", "1">>}),
      d2 \in Setting(<<"d", "2">>, {Domains[2].Name}),
      z2 \in Setting(<<"d", "2">> \o ZoneSuffix, {<<" ">>, <<"z", "2">>}),
      pl \in Setting(DockerPollVar, {<<"F", "A", "L", "S", "E">>}),
      sw \in Setting(SwarmVar, {<<"T", "r", "u", "e">>}),
      fl \in Setting(FilterVar, {<<"(">>}) }

\* The file systems of a start: the token as a Docker secret, or not.
StartFiles == [{SecretDir \o <<"/">> \o TokenVar} -> {0, 2}]

\* The process before main's first statement.
InitConfig ==
    /\ input \in [env : StartEnvs, fs : StartFiles]
    /\ output = << >>
    /\ pc = [t \in Tasks |-> IF t = "main" THEN "boot" ELSE "off"]
    /\ cfg = [DryRun |-> FALSE, RefreshEntries |-> FALSE]
    /\ remote = [k \in Zones \X Hosts |-> << >>]
    /\ owed = Untracked
    /\ synced = EmptyMap
    /\ syncedM = Unlocked
    /\ skipped = [t \in Tasks |-> {}]
    /\ pending = [t \in Tasks |-> EmptyMap]
    /\ name = [t \in Tasks |-> NoName]
    /\ source = [t \in Tasks |-> 0]
    /\ di = [t \in Tasks |-> 0]
    /\ records = [t \in Tasks |-> << >>]
    /\ ri = [t \in Tasks |-> 0]
    /\ ok = [t \in Tasks |-> TRUE]
    /\ calls = [t \in Tasks |-> << >>]
    /\ listed = [t \in Tasks |-> {}]
    /\ failed = [t \in Tasks |-> FALSE]
    /\ LoopsAside

\* main: LoadConfigFromEnv; an error ends the process with os.Exit(1).
LoadConfig ==
    /\ pc["main"] = "boot"
    /\ output' = <<LoadConfigFromEnv(input.env, input.fs)>>
    /\ pc' = [pc EXCEPT !["main"] =
                 IF output'[1].err # "" THEN "exit" ELSE "loaded"]
    /\ UNCHANGED <<input, engineVars, loopVars>>

\* main: NewCloudflareAPI; a token that is blank ends the process.
NewCloudflareAPI ==
    /\ pc["main"] = "loaded"
    /\ pc' = [pc EXCEPT !["main"] =
                 IF TrimSpace(output[1].cfg.CloudflareToken) = << >>
                 THEN "exit" ELSE "api"]
    /\ UNCHANGED <<input, output, engineVars, loopVars>>

\* main: with docker polling enabled the Docker client is made, which
\* succeeds or ends the process.
NewDockerClient ==
    /\ pc["main"] = "api"
    /\ \E made \in BOOLEAN :
         /\ ~output[1].cfg.EnableDockerPoll => made
         /\ pc' = [pc EXCEPT !["main"] = IF made THEN "start" ELSE "exit"]
    /\ UNCHANGED <<input, output, engineVars, loopVars>>

\* main: the call of GetInitialMappings, the first discovery call.
FirstScan ==
    /\ pc["main"] = "start"
    /\ pc' = [pc EXCEPT !["main"] = "sync"]
    /\ UNCHANGED <<input, output, engineVars, loopVars>>

NextConfig ==
    \/ LoadConfig
    \/ NewCloudflareAPI
    \/ NewDockerClient
    \/ FirstScan

SpecConfig == InitConfig /\ [][NextConfig]_vars

\* The variable n is unset or blank in the case c.
Blank(c, n) == n \notin DOMAIN c.env \/ c.env[n] = <<" ">>

\* Required configuration is missing in the case c: no token in the
\* variable or in the secret file, no target domain, no domain key, a
\* domain key without zone id, or swarm mode with docker polling off.
Missing(c) ==
    \/ Blank(c, TokenVar) /\ c.fs[SecretDir \o <<"/">> \o TokenVar] = 0
    \/ TargetVar \notin DOMAIN c.env
    \/ \A i \in 1..Len(DomainKeyOrder) : DomainKeyOrder[i] \notin DOMAIN c.env
    \/ \E i \in 1..Len(DomainKeyOrder) :
          /\ DomainKeyOrder[i] \in DOMAIN c.env
          /\ Blank(c, DomainKeyOrder[i] \o ZoneSuffix)
    \/ SwarmVar \in DOMAIN c.env /\ DockerPollVar \in DOMAIN c.env

\* C27: with required configuration missing LoadConfigFromEnv returns an
\* error and main exits: it never gets to NewCloudflareAPI, to the Docker
\* client or to its first discovery call.
C27_MissingConfigIsFatal ==
    Missing(input)
    => /\ pc["main"] \in {"boot", "exit"}
       /\ output # << >> => output[1].err # ""
       /\ \A t \in Background : pc[t] = "off"

\* C27 witness: the token, the target and DOMAIN1 with its zone id are
\* set, domain2 has a blank zone id, and main has exited with the error
\* for the zone id.
C27_Witness ==
    /\ pc["main"] = "exit"
    /\ output # << >>
    /\ output[1].err = "ZONE_ID is not set"
    /\ ~Blank(input, TokenVar)
    /\ ~Blank(input, <<"D", "1">> \o ZoneSuffix)
    /\ <<"D", "1">> \in DOMAIN input.env
    /\ <<"d", "2">> \in DOMAIN input.env

\* ------------------------------------------------------- provider calls

\* The statuses of a provider response.
ProviderStatuses == {200, 399, 400, 403, 500}

\* The bodies of a provider response, in JSON tokens: text that is no
\* JSON, null, an object without the field success, and envelopes with
\* success true and false, the false one with an error.
ProviderBodies ==
    { <<"x">>, <<"null">>, <<"{", "}">>,
      <<"{", "success", "true", "result", "}">>,
      <<"{", "success", "false", "errors", "}">> }

\* The exchanges of one provider call: the request fails, reading the
\* body fails, or a status and a body arrive.
ProviderExchanges ==
    [op : {"list", "create", "update"}, transport : {"ok", "do", "read"},
     status : ProviderStatuses, body : ProviderBodies]

\* doRequest that returns the body whatever the status.
doRequest_AnyStatus(r) ==
    IF r.transport # "ok"
    THEN [err |-> r.transport, body |-> << >>]
    ELSE [err |-> "", body |-> r.body]

\* cf.doRequest for the exchange r: the error, "" for nil, and the body.
doRequest(r) ==
    IF r.transport # "ok"
    THEN [err |-> r.transport, body |-> << >>]
    ELSE IF r.status >= 400
    THEN [err |-> "http status", body |-> << >>]
    ELSE [err |-> "", body |-> r.body]

\* json.Unmarshal(body, &parsed) into a cfResponse: null and an object
\* without the field leave Success false, an envelope sets it, anything
\* else is an error.
UnmarshalEnvelope(body) ==
    IF body \in {<<"null">>, <<"{", "}">>}
    THEN [err |-> FALSE, Success |-> FALSE]
    ELSE IF Len(body) >= 4 /\ body[1] = "{" /\ body[2] = "success"
            /\ body[3] \in {"true", "false"} /\ body[Len(body)] = "}"
    THEN [err |-> FALSE, Success |-> body[3] = "true"]
    ELSE [err |-> TRUE, Success |-> FALSE]

\* ListDNSRecords, CreateDNSRecord and UpdateDNSRecord for the exchange r:
\* the error they return, "" for nil. The three differ in the request and
\* in the text of the error only.
ProviderCall(r) ==
    LET d == doRequest(r)
    IN  IF d.err # "" THEN d.err
        ELSE IF UnmarshalEnvelope(d.body).err THEN "decode"
        ELSE IF ~UnmarshalEnvelope(d.body).Success
        THEN "cloudflare " \o r.op \o " failed"
        ELSE ""

InitProvider ==
    /\ input \in ProviderExchanges
    /\ output = << >>
    /\ EngineAside
    /\ LoopsAside

\* One call of the provider by pointDomain.
CallProvider ==
    /\ output = << >>
    /\ output' = <<ProviderCall(input)>>
    /\ UNCHANGED <<input, pc, engineVars, loopVars>>

SpecProvider == InitProvider /\ [][CallProvider]_vars

\* The body is an envelope that says success.
SaysSuccess(body) ==
    /\ Len(body) >= 4
    /\ body[2] = "success"
    /\ body[3] = "true"

\* C29: a response with a status of 400 or more, or with an envelope that
\* does not say success, is reported as a failure, and success is reported
\* only for a response with a status below 400 whose envelope says
\* success.
C29_FailedCallIsReported ==
    output # << >>
    => /\ (input.transport = "ok"
           /\ (input.status >= 400 \/ ~SaysSuccess(input.body)))
          => output[1] # ""
       /\ output[1] = ""
          => (/\ input.transport = "ok"
              /\ input.status < 400
              /\ SaysSuccess(input.body))

\* C29 witness: an update got the status 403 with an envelope that says
\* success, and was reported as failed.
C29_Witness ==
    /\ output = <<"http status">>
    /\ input.op = "update"
    /\ input.status = 403
    /\ SaysSuccess(input.body)

\* --------------------------------------------------- the SyncedState lock

\* The executions of the two background tasks with every Lock and Unlock
\* of SyncMappings a step of its own, DRY_RUN and REFRESH_ENTRIES at their
\* defaults.
InitLock ==
    /\ cfg = [DryRun |-> FALSE, RefreshEntries |-> FALSE]
    /\ remote \in InitialRemotes
    /\ owed = Untracked
    /\ synced = EmptyMap
    /\ syncedM = Unlocked
    /\ skipped = [t \in Tasks |-> {}]
    /\ pc = [t \in Tasks |-> IF t = "main" THEN "wait" ELSE "idle"]
    /\ pending = [t \in Tasks |-> EmptyMap]
    /\ name = [t \in Tasks |-> NoName]
    /\ source = [t \in Tasks |-> 0]
    /\ di = [t \in Tasks |-> 0]
    /\ records = [t \in Tasks |-> << >>]
    /\ ri = [t \in Tasks |-> 0]
    /\ ok = [t \in Tasks |-> TRUE]
    /\ calls = [t \in Tasks |-> << >>]
    /\ listed = [t \in Tasks |-> {}]
    /\ failed = [t \in Tasks |-> FALSE]
    /\ LoopsAside
    /\ FnAside

\* SyncMappings, the head of one iteration: the range loop takes the entry
\* (h, pending[t][h]) and c.syncedM.Lock() returns, which it does only
\* when no task holds the lock.
LockToRead(t) ==
    /\ pc[t] = "loop"
    /\ syncedM = Unlocked
    /\ \E h \in DOMAIN pending[t] :
         /\ pending' = [pending EXCEPT ![t] = Without(@, h)]
         /\ name' = [name EXCEPT ![t] = h]
         /\ source' = [source EXCEPT ![t] = pending[t][h]]
    /\ syncedM' = t
    /\ pc' = [pc EXCEPT ![t] = "read"]
    /\ skipped' = [skipped EXCEPT ![t] = {}]
    /\ UNCHANGED <<loopVars, fnVars>>
    /\ UNCHANGED <<cfg, synced, remote, di, records, ri, ok, calls, listed,
                   failed, owed>>

\* ReadEntry that leaves the lock held when it goes on to pointDomain.
ReadEntry_KeepsLock(t) ==
    /\ pc[t] = "read"
    /\ syncedM = t
    /\ IF AlreadySynced(name[t], source[t])
       THEN /\ pc' = [pc EXCEPT ![t] = "loop"]
            /\ syncedM' = Unlocked
            /\ skipped' = [skipped EXCEPT ![t] = {name[t]}]
            /\ name' = [name EXCEPT ![t] = NoName]
            /\ source' = [source EXCEPT ![t] = 0]
            /\ UNCHANGED <<di, ok>>
       ELSE /\ pc' = [pc EXCEPT ![t] = "point"]
            /\ syncedM' = syncedM
            /\ di' = [di EXCEPT ![t] = NextDomain(name[t], 1)]
            /\ ok' = [ok EXCEPT ![t] = TRUE]
            /\ UNCHANGED <<name, source, skipped>>
    /\ UNCHANGED <<loopVars, fnVars>>
    /\ UNCHANGED <<cfg, synced, remote, pending, records, ri, calls, listed,
                   failed, owed>>

\* SyncMappings: current, exists := c.synced[name] and
\* c.syncedM.Unlock(); then the hostname is skipped when it is recorded at
\* a priority <= the incoming one, and pointDomain is entered otherwise.
ReadEntry(t) ==
    /\ pc[t] = "read"
    /\ syncedM = t
    /\ syncedM' = Unlocked
    /\ IF AlreadySynced(name[t], source[t])
       THEN /\ pc' = [pc EXCEPT ![t] = "loop"]
            /\ skipped' = [skipped EXCEPT ![t] = {name[t]}]
            /\ name' = [name EXCEPT ![t] = NoName]
            /\ source' = [source EXCEPT ![t] = 0]
            /\ UNCHANGED <<di, ok>>
       ELSE /\ pc' = [pc EXCEPT ![t] = "point"]
            /\ di' = [di EXCEPT ![t] = NextDomain(name[t], 1)]
            /\ ok' = [ok EXCEPT ![t] = TRUE]
            /\ UNCHANGED <<name, source, skipped>>
    /\ UNCHANGED <<loopVars, fnVars>>
    /\ UNCHANGED <<cfg, synced, remote, pending, records, ri, calls, listed,
                   failed, owed>>

\* The state of task t after pointDomain and the iteration it was called
\* from.
IterationDone(t) ==
    /\ pc' = [pc EXCEPT ![t] = "loop"]
    /\ name' = [name EXCEPT ![t] = NoName]
    /\ source' = [source EXCEPT ![t] = 0]
    /\ di' = [di EXCEPT ![t] = 0]
    /\ ok' = [ok EXCEPT ![t] = TRUE]
    /\ calls' = [calls EXCEPT ![t] = << >>]
    /\ listed' = [listed EXCEPT ![t] = {}]
    /\ failed' = [failed EXCEPT ![t] = FALSE]

\* pointDomain returns false: the iteration ends without the lock.
PointFailed(t) ==
    /\ pc[t] = "point"
    /\ di[t] > NDomains
    /\ ~ok[t]
    /\ IterationDone(t)
    /\ UNCHANGED <<loopVars, fnVars>>
    /\ UNCHANGED <<cfg, synced, syncedM, remote, pending, records, ri,
                   skipped, owed>>

\* pointDomain returns true and c.syncedM.Lock() returns.
LockToWrite(t) ==
    /\ pc[t] = "point"
    /\ di[t] > NDomains
    /\ ok[t]
    /\ syncedM = Unlocked
    /\ syncedM' = t
    /\ pc' = [pc EXCEPT ![t] = "write"]
    /\ UNCHANGED <<loopVars, fnVars>>
    /\ UNCHANGED <<cfg, synced, remote, pending, name, source, di, records,
                   ri, ok, calls, listed, failed, skipped, owed>>

\* SyncMappings: c.synced[name] = source and c.syncedM.Unlock().
WriteEntry(t) ==
    /\ pc[t] = "write"
    /\ syncedM = t
    /\ synced' = Recorded(name[t], source[t], TRUE)
    /\ syncedM' = Unlocked
    /\ IterationDone(t)
    /\ UNCHANGED <<loopVars, fnVars>>
    /\ UNCHANGED <<cfg, remote, pending, records, ri, skipped, owed>>

NextLock ==
    \/ PollerTick
    \/ WatcherEvent
    \/ \E t \in Background :
          \/ LockToRead(t)
          \/ ReadEntry(t)
          \/ ListDNSRecords(t)
          \/ CreateDNSRecord(t)
          \/ UpdateDNSRecord(t)
          \/ PointFailed(t)
          \/ LockToWrite(t)
          \/ WriteEntry(t)
          \/ EndPass(t)

SpecLock == InitLock /\ [][NextLock]_vars

\* Task t issues a provider call in this step.
IssuesCall(t) == calls'[t] # calls[t] /\ calls'[t] # << >>

\* C30: a task inside pointDomain does not hold the lock, so none of its
\* provider calls is issued with the lock held by it; the task that holds
\* the lock is at the read or at the write of one entry, and what it does
\* before it releases the lock changes at most the entry of its hostname.
C30_NoCallUnderLock ==
    /\ [](\A t \in Background :
            /\ Reconciling(t) => syncedM # t
            /\ syncedM = t <=> pc[t] \in {"read", "write"})
    /\ [][\A t \in Background :
            /\ IssuesCall(t) => syncedM # t /\ syncedM' = syncedM
            /\ (syncedM = t /\ syncedM' # t)
               => (/\ syncedM' = Unlocked
                   /\ \A h \in DOMAIN synced :
                        h # name[t] => (h \in DOMAIN synced'
                                        /\ synced'[h] = synced[h])
                   /\ DOMAIN synced' \subseteq DOMAIN synced \cup {name[t]}
                   /\ remote' = remote)]_vars

\* C30 witness: the poller and the watcher are inside pointDomain for
\* different hostnames, each after a provider call of its own, and the
\* lock is free.
C30_Witness ==
    /\ Reconciling("poller")
    /\ Reconciling("watcher")
    /\ name["poller"] # name["watcher"]
    /\ calls["poller"] # << >>
    /\ calls["watcher"] # << >>
    /\ syncedM = Unlocked

\* ------------------------------------------------------ label discovery

Traefik == <<"t", "r", "a", "e", "f", "i", "k">>

\* The label keys of an entity: traefik.h.rule, traefik.frontend.rule,
\* traefik.tag and app.rule.
ModernKey == Traefik \o <<".", "h", ".", "r", "u", "l", "e">>

LegacyKey ==
    Traefik \o <<".", "f", "r", "o", "n", "t", "e", "n", "d", ".", "r", "u",
                 "l", "e">>

TagKey == Traefik \o <<".", "t", "a", "g">>

AppKey == <<"a", "p", "p", ".", "r", "u", "l", "e">>

\* s holds sub at position i.
HasAt(s, i, sub) ==
    /\ i >= 1
    /\ i + Len(sub) - 1 <= Len(s)
    /\ SubSeq(s, i, i + Len(sub) - 1) = sub

\* regexp traefik.*.frontend.rule finds a match in key: traefik, any
\* text, one character, frontend, one character, rule.
MatchesLegacyKey(key) ==
    \E i \in 1..Len(key) : \E j \in (i + 7)..Len(key) :
        /\ HasAt(key, i, Traefik)
        /\ HasAt(key, j + 1, <<"f", "r", "o", "n", "t", "e", "n", "d">>)
        /\ HasAt(key, j + 10, <<"r", "u", "l", "e">>)

\* regexp traefik.*?\.rule finds a match in key: traefik, any text, .rule.
MatchesModernKey(key) ==
    \E i \in 1..Len(key) : \E j \in (i + 7)..Len(key) :
        /\ HasAt(key, i, Traefik)
        /\ HasAt(key, j, <<".", "r", "u", "l", "e">>)

\* The discovery part of Config: DOCKER_SWARM_MODE, TRAEFIK_VERSION,
\* TRAEFIK_FILTER_LABEL set to tag, and TRAEFIK_FILTER unset (<< >> for
\* the nil expression) or set to x.
Discoveries ==
    [DockerSwarmMode : BOOLEAN, TraefikVersion : {"1", "2"},
     TraefikFilterKey : { <<"t", "a", "g">> },
     TraefikFilter : { << >>, <<"x">> }]

\* matchTraefikFilter(labels), labels a set of <<key, value>> pairs.
matchTraefikFilter(d, labels) ==
    \/ d.TraefikFilter = << >>
    \/ \E l \in labels :
          /\ MatchString(d.TraefikFilterKey, l[1])
          /\ MatchString(d.TraefikFilter, l[2])

\* The elements of a sequence.
Range(q) == {q[i] : i \in 1..Len(q)}

\* checkContainerT1 and checkServiceT1, which differ in a log text only.
checkT1(d, labels) ==
    IF ~matchTraefikFilter(d, labels) THEN EmptyMap
    ELSE MapOf(UNION {Range(parseTraefikV1HostRule(l[2])) :
                        l \in {k \in labels : MatchesLegacyKey(k[1])}}, 1)

\* checkT2 that marks its hostnames with the priority of the poll.
checkT2_AsPolled(d, labels) ==
    IF ~matchTraefikFilter(d, labels) THEN EmptyMap
    ELSE MapOf(UNION {Range(parseTraefikV2Rule(l[2])) :
                        l \in {k \in labels : /\ MatchesModernKey(k[1])
                                               /\ Contains(k[2], HostWord)}},
               2)

\* checkContainerT2 and checkServiceT2, which differ in nothing.
checkT2(d, labels) ==
    IF ~matchTraefikFilter(d, labels) THEN EmptyMap
    ELSE MapOf(UNION {Range(parseTraefikV2Rule(l[2])) :
                        l \in {k \in labels : /\ MatchesModernKey(k[1])
                                               /\ Contains(k[2], HostWord)}},
               1)

\* The check of the configured Traefik version.
checkLabels(d, labels) ==
    IF d.TraefikVersion = "1" THEN checkT1(d, labels) ELSE checkT2(d, labels)

\* The label sets of the entities: none, a modern rule for
\* app.example.com, the same with the filter's tag, a legacy rule for
\* app.internal.example.com, and a rule under a key that is not Traefik's.
LabelSets ==
    { {},
      {<<ModernKey, HostRule(AppHost)>>},
      {<<ModernKey, HostRule(AppHost)>>, <<TagKey, <<"x">>>>},
      {<<LegacyKey, HostColon \o InternalHost>>},
      {<<AppKey, HostRule(Target2)>>} }

\* -------------------------------------------------------- Docker events

\* The events of the subscription, which asks for the types container and
\* service: their type, action and Actor.ID.
DockerEvents ==
    [Type : {"container", "service"}, Action : {"start", "update", "die"},
     ID : {"", "id"}]

\* What ContainerInspect or ServiceInspectWithRaw gives for the actor: an
\* error, or the entity's labels; for a service, whether its task
\* template has a ContainerSpec.
Inspections == [err : BOOLEAN, labels : LabelSets, hasSpec : BOOLEAN]

\* processDockerEvent that inspects an updated service whether or not
\* swarm mode is enabled.
processDockerEvent_NoSwarmTest(d, ev, insp) ==
    IF ev.Type = "container" /\ ev.Action = "start"
    THEN IF ev.ID = "" THEN [mappings |-> EmptyMap, inspected |-> {}]
         ELSE [mappings |-> IF insp.err THEN EmptyMap
                            ELSE checkLabels(d, insp.labels),
               inspected |-> {"container"}]
    ELSE IF ev.Type = "service" /\ ev.Action = "update"
    THEN IF ev.ID = "" THEN [mappings |-> EmptyMap, inspected |-> {}]
         ELSE [mappings |->
                   IF insp.err THEN EmptyMap
                   ELSE IF d.TraefikVersion = "1" /\ ~insp.hasSpec
                   THEN EmptyMap
                   ELSE checkLabels(d, insp.labels),
               inspected |-> {"service"}]
    ELSE [mappings |-> EmptyMap, inspected |-> {}]

\* processDockerEvent(ctx, event, logger), with insp the outcome of the
\* inspection it may make: the mappings it returns and the kind of entity
\* it inspected.
processDockerEvent(d, ev, insp) ==
    IF ev.Type = "container" /\ ev.Action = "start"
    THEN IF ev.ID = "" THEN [mappings |-> EmptyMap, inspected |-> {}]
         ELSE [mappings |-> IF insp.err THEN EmptyMap
                            ELSE checkLabels(d, insp.labels),
               inspected |-> {"container"}]
    ELSE IF d.DockerSwarmMode /\ ev.Type = "service" /\ ev.Action = "update"
    THEN IF ev.ID = "" THEN [mappings |-> EmptyMap, inspected |-> {}]
         ELSE [mappings |->
                   IF insp.err THEN EmptyMap
                   ELSE IF d.TraefikVersion = "1" /\ ~insp.hasSpec
                   THEN EmptyMap
                   ELSE checkLabels(d, insp.labels),
               inspected |-> {"service"}]
    ELSE [mappings |-> EmptyMap, inspected |-> {}]

\* No event yet.
NoEvent == [Type |-> "none", Action |-> "none", ID |-> ""]

\* The event watcher runs, the initial pass over and the poller not
\* enabled; nothing synced yet. input holds the discovery configuration,
\* the event the watcher is at, the outcome of its inspection and the
\* kind of entity processDockerEvent inspected.
InitEvent ==
    /\ cfg = [DryRun |-> FALSE, RefreshEntries |-> FALSE]
    /\ remote \in InitialRemotes
    /\ owed = Untracked
    /\ synced = EmptyMap
    /\ syncedM = Unlocked
    /\ skipped = [t \in Tasks |-> {}]
    /\ pc = [t \in Tasks |->
                IF t = "main" THEN "wait"
                ELSE IF t = "watcher" THEN "idle" ELSE "off"]
    /\ pending = [t \in Tasks |-> EmptyMap]
    /\ name = [t \in Tasks |-> NoName]
    /\ source = [t \in Tasks |-> 0]
    /\ di = [t \in Tasks |-> 0]
    /\ records = [t \in Tasks |-> << >>]
    /\ ri = [t \in Tasks |-> 0]
    /\ ok = [t \in Tasks |-> TRUE]
    /\ calls = [t \in Tasks |-> << >>]
    /\ listed = [t \in Tasks |-> {}]
    /\ failed = [t \in Tasks |-> FALSE]
    /\ LoopsAside
    /\ input \in [discovery : Discoveries, ev : {NoEvent},
                  insp : {[err |-> FALSE, labels |-> {}, hasSpec |-> FALSE]},
                  inspected : {{}}]
    /\ output = << >>

\* RunDockerEventWatch, one event: processDockerEvent, and SyncMappings
\* entered with its mappings.
DockerEvent ==
    /\ pc["watcher"] = "idle"
    /\ \E ev \in DockerEvents, insp \in Inspections :
         LET r == processDockerEvent(input.discovery, ev, insp)
         IN  /\ input' = [input EXCEPT !.ev = ev, !.insp = insp,
                                       !.inspected = r.inspected]
             /\ pending' = [pending EXCEPT !["watcher"] = r.mappings]
    /\ pc' = [pc EXCEPT !["watcher"] = "loop"]
    /\ UNCHANGED <<loopVars, output, cfg, synced, syncedM, remote, name,
                   source, di, records, ri, ok, calls, listed, failed,
                   skipped, owed>>

NextEvent ==
    \/ DockerEvent
    \/ SyncNext("watcher")
    \/ ListDNSRecords("watcher")
    \/ CreateDNSRecord("watcher")
    \/ UpdateDNSRecord("watcher")
    \/ PointDone("watcher")
    \/ EndPass("watcher")

SpecEvent == InitEvent /\ [][NextEvent]_vars

\* The event is one that processDockerEvent acts on: a started container,
\* or with swarm mode an updated service.
Handled(d, ev) ==
    \/ ev.Type = "container" /\ ev.Action = "start"
    \/ d.DockerSwarmMode /\ ev.Type = "service" /\ ev.Action = "update"

\* C31: an entity is inspected only for a started container and, with
\* swarm mode, an updated service, and it is the event's kind of entity;
\* an event of any other kind, one without an actor id and one whose
\* inspection failed inspect nothing or yield nothing: their pass has an
\* empty mapping, reconciles no hostname, makes no provider call and only
\* returns, leaving SyncedState and the provider's records as they are.
C31_OnlyStartAndUpdateYield ==
    /\ [](pc["watcher"] # "idle"
          => /\ input.inspected # {}
                => (/\ Handled(input.discovery, input.ev)
                    /\ input.ev.ID # ""
                    /\ input.inspected = {input.ev.Type})
             /\ ~Handled(input.discovery, input.ev) => input.inspected = {}
             /\ (\/ ~Handled(input.discovery, input.ev)
                 \/ input.ev.ID = ""
                 \/ input.insp.err)
                => (/\ pc["watcher"] = "loop"
                    /\ pending["watcher"] = EmptyMap
                    /\ name["watcher"] = NoName
                    /\ calls["watcher"] = << >>))
    /\ [][(/\ pc["watcher"] = "loop"
           /\ \/ ~Handled(input.discovery, input.ev)
              \/ input.ev.ID = ""
              \/ input.insp.err)
          => (/\ pc'["watcher"] = "idle"
              /\ synced' = synced
              /\ remote' = remote
              /\ calls' = calls)]_vars

\* C31 witness: without swarm mode a service whose labels name a hostname
\* was updated, and the pass of the event is empty; before it a started
\* container had its hostname synced.
C31_Witness ==
    /\ ~input.discovery.DockerSwarmMode
    /\ input.ev = [Type |-> "service", Action |-> "update", ID |-> "id"]
    /\ ~input.insp.err
    /\ checkLabels(input.discovery, input.insp.labels) # EmptyMap
    /\ pc["watcher"] = "loop"
    /\ pending["watcher"] = EmptyMap
    /\ synced # EmptyMap

\* ----------------------------------------------------- the initial scan

\* Largest number of containers ContainerList returns.
MaxEntities == 2

\* The labels of the listed entities: none, a modern rule for
\* app.example.com, a legacy rule for app.internal.example.com.
ScanLabels ==
    { {},
      {<<ModernKey, HostRule(AppHost)>>},
      {<<LegacyKey, HostColon \o InternalHost>>} }

\* The configurations of the scan that LoadConfigFromEnv accepts: swarm
\* mode only with Docker polling; no TRAEFIK_FILTER.
ScanConfigs ==
    { c \in [DockerSwarmMode : BOOLEAN, TraefikVersion : {"1", "2"},
             TraefikFilterKey : { <<"t", "a", "g">> },
             TraefikFilter : { << >> },
             EnableDockerPoll : BOOLEAN, EnableTraefikPoll : BOOLEAN] :
        c.DockerSwarmMode => c.EnableDockerPoll }

\* What Docker and Traefik answer during the scan: the list call that
\* fails, if any; per listed container the outcome of ContainerInspect;
\* the listed services; the exchange of the poll.
ScanWorlds ==
    [listErr : {"none", "containers", "services"},
     containers : UNION {[1..n -> [err : BOOLEAN, labels : ScanLabels]] :
                           n \in 0..MaxEntities},
     services : { << >> } \cup
                { <<sv>> : sv \in [labels : ScanLabels \ {{}},
                                   hasSpec : BOOLEAN] },
     exchange : { [transport |-> "do", status |-> StatusOK,
                   body |-> <<"[", "]">>],
                  [transport |-> "ok", status |-> StatusOK,
                   body |-> <<"[", "ra", "]">>],
                  [transport |-> "ok", status |-> StatusOK,
                   body |-> <<"[", "ra", ",", "rb", "]">>] }]

\* The loop over the containers from the one at i on: addToMappings of
\* the labels' hostnames for every container whose inspection succeeded;
\* a failed inspection is passed over by continue.
RECURSIVE ScanContainers(_, _, _, _)
ScanContainers(c, containers, i, m) ==
    IF i > Len(containers) THEN m
    ELSE ScanContainers(c, containers, i + 1,
             IF containers[i].err THEN m
             ELSE addToMappings(m, checkLabels(c, containers[i].labels)))

\* The loop over the services from the one at i on.
RECURSIVE ScanServices(_, _, _, _)
ScanServices(c, services, i, m) ==
    IF i > Len(services) THEN m
    ELSE ScanServices(c, services, i + 1,
             IF c.TraefikVersion = "1"
             THEN IF services[i].hasSpec
                  THEN addToMappings(m, checkT1(c, services[i].labels))
                  ELSE m
             ELSE addToMappings(m, checkT2(c, services[i].labels)))

\* The messages GetInitialMappings and the functions it calls write at the
\* error level: the one of checkTraefik for a failed poll. There is no
\* statement that writes one for a failed inspection.
ScanLog(c, w) ==
    IF c.EnableTraefikPoll /\ FetchTraefikRouters(w.exchange).err # ""
    THEN <<"failed to poll traefik routers">>
    ELSE << >>

\* c.GetInitialMappings(ctx, logger): the mappings, whether it returned an
\* error, and what it logged at the error or warning level.
InitialMappings(c, w) ==
    IF c.EnableDockerPoll /\ w.listErr = "containers"
    THEN [mappings |-> EmptyMap, err |-> TRUE, logged |-> << >>]
    ELSE IF c.DockerSwarmMode /\ w.listErr = "services"
    THEN [mappings |-> EmptyMap, err |-> TRUE, logged |-> << >>]
    ELSE LET m1 == IF c.EnableDockerPoll
                   THEN ScanContainers(c, w.containers, 1, EmptyMap)
                   ELSE EmptyMap
             m2 == IF c.DockerSwarmMode
                   THEN ScanServices(c, w.services, 1, m1)
                   ELSE m1
             m3 == IF c.EnableTraefikPoll
                   THEN addToMappings(m2, checkTraefik(w.exchange))
                   ELSE m2
         IN  [mappings |-> m3, err |-> FALSE, logged |-> ScanLog(c, w)]

\* input is the configuration and what Docker and Traefik answer; output
\* holds the result of the scan, of the first event and of the first poll.
InitScan ==
    /\ input \in [cfg : ScanConfigs, world : ScanWorlds]
    /\ output = [scan |-> << >>, event |-> << >>, poll |-> << >>]
    /\ EngineAside
    /\ LoopsAside

\* main: c.GetInitialMappings(ctx, logger).
RunScan ==
    /\ output.scan = << >>
    /\ output' = [output EXCEPT
                     !.scan = <<InitialMappings(input.cfg, input.world)>>]
    /\ UNCHANGED <<input, pc, engineVars, loopVars>>

\* RunDockerEventWatch: the first listed container is started again and
\* processDockerEvent inspects it, with the outcome the scan had.
RunEvent ==
    /\ output.scan # << >>
    /\ output.event = << >>
    /\ input.cfg.EnableDockerPoll
    /\ Len(input.world.containers) > 0
    /\ output' = [output EXCEPT
                     !.event = <<processDockerEvent(
                                    input.cfg,
                                    [Type |-> "container", Action |-> "start",
                                     ID |-> "id"],
                                    [err |-> input.world.containers[1].err,
                                     labels |-> input.world.containers[1].labels,
                                     hasSpec |-> FALSE]).mappings>>]
    /\ UNCHANGED <<input, pc, engineVars, loopVars>>

\* RunTraefikPoller: the first tick, with the exchange the scan had.
RunPoll ==
    /\ output.scan # << >>
    /\ output.poll = << >>
    /\ input.cfg.EnableTraefikPoll
    /\ output' = [output EXCEPT !.poll = <<checkTraefik(input.world.exchange)>>]
    /\ UNCHANGED <<input, pc, engineVars, loopVars>>

NextScan == RunScan \/ RunEvent \/ RunPoll

SpecScan == InitScan /\ [][NextScan]_vars

\* The hostnames the labels of an entity name under the configured
\* Traefik version.
Named(c, labels) ==
    IF c.TraefikVersion = "2" /\ labels = {<<ModernKey, HostRule(AppHost)>>}
    THEN {AppHost}
    ELSE IF /\ c.TraefikVersion = "1"
            /\ labels = {<<LegacyKey, HostColon \o InternalHost>>}
    THEN {InternalHost}
    ELSE {}

\* The hostnames the scan finds by label discovery: those of the
\* containers whose inspection succeeded and, in swarm mode, those of the
\* services that can be read.
Discovered(c, w) ==
    UNION ({Named(c, w.containers[i].labels) :
              i \in {k \in 1..Len(w.containers) :
                       c.EnableDockerPoll /\ ~w.containers[k].err}}
           \cup
           {Named(c, w.services[i].labels) :
              i \in {k \in 1..Len(w.services) :
                       /\ c.DockerSwarmMode
                       /\ c.TraefikVersion = "1" => w.services[k].hasSpec}})

\* The hostnames the poll of the scan finds.
Polled(c, w) ==
    IF ~c.EnableTraefikPoll \/ w.exchange.transport # "ok" THEN {}
    ELSE {AppHost} \cup (IF Len(w.exchange.body) > 3 THEN {InternalHost}
                         ELSE {})

\* C32: the scan presents exactly the hostnames found by label discovery
\* or by the poll, those found by label discovery at priority 1, also
\* when the poll found them too, and the others at priority 2; the
\* hostnames of an event all have priority 1 and those of a poll all have
\* priority 2.
C32_DiscoveryIsOnePollIsTwo ==
    /\ (output.scan # << >> /\ ~output.scan[1].err)
       => LET m == output.scan[1].mappings
          IN  /\ DOMAIN m = Discovered(input.cfg, input.world)
                            \cup Polled(input.cfg, input.world)
              /\ \A h \in DOMAIN m :
                    m[h] = IF h \in Discovered(input.cfg, input.world)
                           THEN 1 ELSE 2
    /\ output.event # << >>
       => (/\ \A h \in DOMAIN output.event[1] : output.event[1][h] = 1
           /\ DOMAIN output.event[1]
              = IF input.world.containers[1].err THEN {}
                ELSE Named(input.cfg, input.world.containers[1].labels))
    /\ output.poll # << >>
       => (/\ \A h \in DOMAIN output.poll[1] : output.poll[1][h] = 2
           /\ DOMAIN output.poll[1] = Polled(input.cfg, input.world))

\* C32 witness: the scan found app.example.com in the labels of a
\* container and in the poll and presents it at priority 1, the event of
\* the container gives it priority 1 and the poll gives it priority 2.
C32_Witness ==
    /\ output.scan # << >>
    /\ output.event # << >>
    /\ output.poll # << >>
    /\ ~output.scan[1].err
    /\ AppHost \in Discovered(input.cfg, input.world)
    /\ AppHost \in Polled(input.cfg, input.world)
    /\ output.scan[1].mappings[AppHost] = 1
    /\ output.event[1] = MapOf({AppHost}, 1)
    /\ output.poll[1][AppHost] = 2

\* C34, as stated: a container whose inspection failed during the scan
\* adds nothing to the snapshot, the hostnames of the containers that
\* could be inspected are in it, and the log has a line for the failure.
C34_InspectFailureIsLogged ==
    (/\ output.scan # << >>
     /\ ~output.scan[1].err
     /\ input.cfg.EnableDockerPoll
     /\ \E i \in 1..Len(input.world.containers) :
           input.world.containers[i].err)
    => /\ \A i \in 1..Len(input.world.containers) :
             ~input.world.containers[i].err
             => Named(input.cfg, input.world.containers[i].labels)
                \subseteq DOMAIN output.scan[1].mappings
       /\ DOMAIN output.scan[1].mappings
          \subseteq Discovered(input.cfg, input.world)
                    \cup Polled(input.cfg, input.world)
       /\ \E k \in 1..Len(output.scan[1].logged) :
             output.scan[1].logged[k] = "container inspect failed"

\* ------------------------------------------------- the poll's filters

\* Largest number of routers in one response.
MaxRouters == 2

\* The three predicates of the routers' rules.
HostA ==
    [text |-> HostRule(<<"a", ".", "c">>), hosts |-> << <<"a", ".", "c">> >>]

HostB ==
    [text |-> HostRule(<<"b", "-", "1">>), hosts |-> << <<"b", "-", "1">> >>]

MethodG ==
    [text |-> <<"M", "e", "t", "h", "o", "d", "(", BackQuote, "G", BackQuote, ")">>,
     hosts |-> << >>]

\* The routers of a response: their name and status, and the predicates
\* of their rule.
PolledRouters ==
    [Name : {"web"}, Status : {"enabled", "disabled"},
     preds : { <<HostA>>, <<HostB>>, <<MethodG>>, <<HostA, HostB>>,
               <<HostA, MethodG>> }]
    \cup [Name : {""}, Status : {"enabled"},
          preds : { <<HostA>>, <<HostB>>, <<MethodG>>, <<HostA, HostB>>,
                    <<HostA, MethodG>> }]

\* The TraefikRouter the response decodes to.
Decoded(router) ==
    [Name |-> router.Name, Status |-> router.Status,
     Rule |-> V2Rule(router.preds, <<" ", "&", "&", " ">>)]

\* The values of the TRAEFIK_INCLUDED_HOSTn and of the
\* TRAEFIK_EXCLUDED_HOSTn variables.
IncludeEnvs ==
    { << >>, << <<"^", "a">> >>, << <<"^", "a">>, <<"-", "1", "$">> >>,
      << <<"x">> >> }

ExcludeEnvs ==
    { << >>, << <<"b", ".", "1">> >>, << <<".", "*">> >>, << <<"c">> >> }

\* loadTraefikHostFilters(): the compiled expressions, the includes being
\* .* when no variable sets one.
loadTraefikHostFilters(includeEnv, excludeEnv) ==
    [includes |-> IF Len(includeEnv) = 0 THEN << <<".", "*">> >>
                  ELSE includeEnv,
     excludes |-> excludeEnv]

InitFilter ==
    /\ input \in [routers : UNION {[1..n -> PolledRouters] : n \in 0..MaxRouters},
                  includeEnv : IncludeEnvs, excludeEnv : ExcludeEnvs]
    /\ output = << >>
    /\ EngineAside
    /\ LoopsAside

\* One poll cycle whose request succeeded: the mapping checkTraefik builds
\* from the routers, with the filters LoadConfigFromEnv got.
PollCycle ==
    /\ output = << >>
    /\ LET f == loadTraefikHostFilters(input.includeEnv, input.excludeEnv)
           items == [i \in 1..Len(input.routers) |-> Decoded(input.routers[i])]
       IN  output' = <<MapOf(RouterHosts(items, f.includes, f.excludes), 2)>>
    /\ UNCHANGED <<input, pc, engineVars, loopVars>>

SpecFilter == InitFilter /\ [][PollCycle]_vars

\* The pairs of a pattern and a hostname it matches.
Fits ==
    { << <<"^", "a">>, <<"a", ".", "c">> >>,
      << <<"-", "1", "$">>, <<"b", "-", "1">> >>,
      << <<"b", ".", "1">>, <<"b", "-", "1">> >>,
      << <<".", "*">>, <<"a", ".", "c">> >>,
      << <<".", "*">>, <<"b", "-", "1">> >>,
      << <<"c">>, <<"a", ".", "c">> >> }

\* The hostname h passes the configured patterns: it matches an include
\* pattern, or none is configured, and it matches no exclude pattern.
Passes(h) ==
    /\ \/ Len(input.includeEnv) = 0
       \/ \E k \in 1..Len(input.includeEnv) : <<input.includeEnv[k], h>> \in Fits
    /\ ~\E k \in 1..Len(input.excludeEnv) : <<input.excludeEnv[k], h>> \in Fits

\* C33: the mapping of a poll cycle holds a hostname, at priority 2, if
\* and only if it is named by a Host( call in the rule of a returned
\* router that is enabled and has a name, and it matches an include
\* pattern, any hostname doing so when none is configured, and no exclude
\* pattern.
C33_PollKeepsFilteredHosts ==
    output # << >>
    => /\ \A h \in DOMAIN output[1] : output[1][h] = 2
       /\ DOMAIN output[1]
          = { h \in { <<"a", ".", "c">>, <<"b", "-", "1">> } :
                /\ \E i \in 1..Len(input.routers) :
                      /\ input.routers[i].Status = "enabled"
                      /\ input.routers[i].Name # ""
                      /\ \E k \in 1..Len(HostsOf(input.routers[i].preds)) :
                            HostsOf(input.routers[i].preds)[k] = h
                /\ Passes(h) }

\* C33 witness: of the two hostnames of an enabled router the poll kept
\* the one the patterns let pass, and it dropped the only hostname of a
\* disabled router.
C33_Witness ==
    /\ output = <<MapOf({ <<"a", ".", "c">> }, 2)>>
    /\ Len(input.routers) = 2
    /\ input.routers[1] = [Name |-> "web", Status |-> "enabled",
                           preds |-> <<HostA, HostB>>]
    /\ input.routers[2].Status = "disabled"
    /\ input.excludeEnv = << <<"b", ".", "1">> >>
    /\ input.includeEnv # << >>

\* ------------------------------------------------- the cursor and failures

\* C35, as stated: the cursor moves to the time of an event only when the
\* processing of the event ended without a runtime failure: the step of
\* an event whose processing panicked leaves the cursor where it was, so
\* that the next subscription starts before that event.
C35_CursorOnlyAfterSuccess ==
    [][Writes(Recovered("docker-event-watch")) => since' = since]_vars

\* ------------------------------------------------- SyncedState over time

\* C36: under dry-run every call is a list and the provider's records
\* stay as they are; a pointDomain call that returns without a failed
\* list leaves its hostname recorded at the incoming priority; and a pass
\* that presents a hostname recorded at the same or a more authoritative
\* priority skips it, issuing no list call for it.
C36_DryRunIsRecorded ==
    /\ [](cfg.DryRun
          => \A t \in Tasks : \A i \in 1..Len(calls[t]) :
                calls[t][i].op = "list")
    /\ [][\A t \in Tasks :
            /\ (cfg.DryRun /\ Returns(t) /\ ~failed[t])
               => (/\ remote' = remote
                   /\ name[t] \in DOMAIN synced'
                   /\ synced'[name[t]] = source[t])
            /\ \A h \in Hosts :
                 (/\ cfg.DryRun
                  /\ Visits(t, h)
                  /\ h \in DOMAIN synced
                  /\ synced[h] <= pending[t][h])
                 => (/\ pc'[t] = "loop"
                     /\ calls' = calls
                     /\ listed' = listed
                     /\ synced' = synced)]_vars

\* C36 witness: under dry-run app.example.com, which has no record in
\* either zone, is recorded at priority 1, and the poller, which presents
\* it at priority 2, has skipped it.
C36_Witness ==
    /\ cfg.DryRun
    /\ AppHost \in DOMAIN synced
    /\ synced[AppHost] = 1
    /\ remote[<<"z1", AppHost>>] = << >>
    /\ remote[<<"z2", AppHost>>] = << >>
    /\ skipped["poller"] = {AppHost}

\* C37: every recorded priority is 1 or 2; a step never removes an entry
\* of SyncedState; and SyncedState changes only in the step of
\* SyncMappings that follows the return of pointDomain, which writes the
\* entry of its hostname and no other.
C37_SyncedOnlyGrows ==
    /\ [](\A h \in DOMAIN synced : synced[h] \in {1, 2})
    /\ [][/\ DOMAIN synced \subseteq DOMAIN synced'
          /\ synced' # synced
             => \E t \in Tasks :
                   /\ Returns(t)
                   /\ ok[t]
                   /\ DOMAIN synced' = DOMAIN synced \cup {name[t]}
                   /\ \A h \in DOMAIN synced :
                         h # name[t] => synced'[h] = synced[h]]_vars

\* C37 witness: SyncedState has grown to two hostnames, one recorded at
\* priority 1 and one at priority 2.
C37_Witness ==
    /\ Cardinality(DOMAIN synced) >= 2
    /\ \E h, g \in DOMAIN synced : synced[h] = 1 /\ synced[g] = 2

====
